---- MODULE Spec2Model ----
(***************************************************************************)
(* Browse3D::Model (Code/Source/Tools/Browse3D/Model.cpp): the lazily      *)
(* rebuilt, transform-aware face kd-tree and vertex kd-tree of a model,    *)
(* and the queries answered through them.                                  *)
(*                                                                         *)
(* Geometry is the one-dimensional analogue of the program's: a position   *)
(* is an integer, a triangle covers the interval spanned by its three      *)
(* vertices, an affine transform is a translation, a ray has an origin and *)
(* a direction +1 or -1.  Distances and hit times are then exact integers. *)
(***************************************************************************)
EXTENDS Integers, Sequences, FiniteSets, TLC

\* ---------------------------------------------------------------- bounds
MaxCoord == 3
MaxFaces == 2
MaxShift == 1

Coord == 0..MaxCoord
\* distance bounds and ray time limits a caller passes; negative means "none"
Bounds == (0 - 1)..MaxCoord
Dirs == {0 - 1, 1}
Shifts == 1..MaxShift

\* ------------------------------------------------------- mesh files on disk
Triangles(n) == {t \in (1..n) \X (1..n) \X (1..n) : t[1] < t[2] /\ t[2] < t[3]}

VertexLists ==
  UNION {{v \in [1..n -> Coord] : \A i \in 1..(n - 1) : v[i] < v[i + 1]} : n \in 1..(MaxCoord + 1)}

FaceLists(n) ==
  UNION {{f \in [1..k -> Triangles(n)] : \A i, j \in 1..k : i # j => f[i] # f[j]} : k \in 0..MaxFaces}

\* every mesh file within the bounds: vertex positions, triangles over vertex numbers
MeshFiles == UNION {{[verts |-> v, faces |-> f] : f \in FaceLists(Len(v))} : v \in VertexLists}

MeshPaths == {"a.obj", "b.off"}
PtsPaths == {"c.pts"}
Paths == MeshPaths \cup PtsPaths

\* the mesh files on the disk of the life-cycle specification: one triangle over
\* three vertices; two triangles and a vertex that belongs to neither
DiskMesh(path_) ==
  IF path_ = "a.obj"
  THEN [verts |-> <<1, 2, 3>>, faces |-> << <<1, 2, 3>> >>]
  ELSE [verts |-> <<0, 1, 2, 3, 3>>, faces |-> << <<3, 4, 5>>, <<2, 3, 4>> >>]

\* ------------------------------------------------------------- primitives
Min2(a, b) == IF a < b THEN a ELSE b
Max2(a, b) == IF a > b THEN a ELSE b

\* the triangle of face f of a mesh, as the kd-tree stores it
TriangleOf(mesh, f) ==
  LET t == mesh.faces[f]
      a == mesh.verts[t[1]]
      b == mesh.verts[t[2]]
      c == mesh.verts[t[3]]
  IN [lo |-> Min2(a, Min2(b, c)), hi |-> Max2(a, Max2(b, c)), mesh |-> mesh.id]

\* MetricL2: distance from a point to a triangle, and the closest point on it
Distance(q, e) == IF q < e.lo THEN e.lo - q ELSE IF q > e.hi THEN q - e.hi ELSE 0
ClosestOn(q, e) == IF q < e.lo THEN e.lo ELSE IF q > e.hi THEN e.hi ELSE q

\* RayIntersectionTester: hit time of the ray (o, d) on a triangle, -1 if it misses
RayTime(o, d, e) ==
  IF e.lo <= o /\ o <= e.hi THEN 0
  ELSE IF d = 1 /\ o < e.lo THEN e.lo - o
  ELSE IF d = 0 - 1 /\ o > e.hi THEN o - e.hi
  ELSE 0 - 1

WithinBound(x, bound) == bound < 0 \/ x <= bound

\* ------------------------------------------------------------ kd-tree
NewKDTree == [elems |-> << >>, has_trans |-> FALSE, trans |-> 0]

KDClear(t) == [t EXCEPT !.elems = << >>]

KDInitFaces(t, mesh) ==
  [t EXCEPT !.elems = [f \in 1..Len(mesh.faces) |-> TriangleOf(mesh, f)]]

KDInitVertices(t, mesh) ==
  [t EXCEPT !.elems = [v \in 1..Len(mesh.verts) |->
                         [lo |-> mesh.verts[v], hi |-> mesh.verts[v], mesh |-> mesh.id]]]

KDSetTransform(t, s) == [t EXCEPT !.has_trans = TRUE, !.trans = s]
KDClearTransform(t) == [t EXCEPT !.has_trans = FALSE, !.trans = 0]

\* a world-space position in the tree's object space
ToObject(t, x) == IF t.has_trans THEN x - t.trans ELSE x
ToWorld(t, x) == IF t.has_trans THEN x + t.trans ELSE x

NoneFound == [index |-> 0 - 1, val |-> 0 - 1, point |-> 0, mesh |-> ""]

\* depth-first scan in traversal order with a running best: a candidate replaces
\* the best only when strictly better, so the first one met wins a tie
RECURSIVE ScanClosest(_, _, _, _, _)
ScanClosest(elems, i, q, bound, best) ==
  IF i > Len(elems) THEN best
  ELSE LET d == Distance(q, elems[i])
           better == IF best.index < 0 THEN WithinBound(d, bound) ELSE d < best.val
       IN ScanClosest(elems, i + 1, q, bound,
                      IF better
                      THEN [index |-> i - 1, val |-> d, point |-> ClosestOn(q, elems[i]),
                            mesh |-> elems[i].mesh]
                      ELSE best)

KDClosestElement(t, query, bound) ==
  LET r == ScanClosest(t.elems, 1, ToObject(t, query), bound, NoneFound)
  IN IF r.index < 0 THEN r ELSE [r EXCEPT !.point = ToWorld(t, @)]

RECURSIVE ScanRay(_, _, _, _, _, _)
ScanRay(elems, i, o, d, max_time, best) ==
  IF i > Len(elems) THEN best
  ELSE LET h == RayTime(o, d, elems[i])
           better == h >= 0 /\ WithinBound(h, max_time) /\ (best.index < 0 \/ h < best.val)
       IN ScanRay(elems, i + 1, o, d, max_time,
                  IF better
                  THEN [index |-> i - 1, val |-> h, point |-> o + d * h, mesh |-> elems[i].mesh]
                  ELSE best)

KDRayStructureIntersection(t, o, d, max_time) ==
  LET r == ScanRay(t.elems, 1, ToObject(t, o), d, max_time, NoneFound)
  IN IF r.index < 0 THEN r ELSE [r EXCEPT !.point = ToWorld(t, @)]

KDRayIntersectionTime(t, o, d, max_time) == KDRayStructureIntersection(t, o, d, max_time).val

KDRayIntersects(t, o, d, max_time) ==
  \E i \in 1..Len(t.elems) :
    LET h == RayTime(ToObject(t, o), d, t.elems[i]) IN h >= 0 /\ WithinBound(h, max_time)

\* closestPair(ray, -1, true): nothing when the ray hits exactly; otherwise the
\* element nearest to the ray.  A ray that misses has every element behind its
\* origin, so the closest point of the ray is the origin itself.
KDClosestPairRay(t, o, d) ==
  IF KDRayIntersects(t, o, d, 0 - 1) THEN NoneFound
  ELSE KDClosestElement(t, o, 0 - 1)

\* ------------------------------------------------------------ Model state
VARIABLES
  mesh_group,           \* the loaded mesh group, or a null pointer
  point_cloud,          \* "null", "empty" or "points"
  path,                 \* path of the loaded model, "" when none
  has_transform, trans, \* TransformableBaseT of the Model
  valid_kdtree, kdtree,
  valid_vertex_kdtree, vertex_kdtree,
  valid_pick, picked_sample,
  picked_segment,       \* the meshes of the segment being picked
  segments,             \* the committed segments, each a set of meshes
  samples,              \* the samples of the model
  selected_sample, selected_segment,
  segment_depth_promotion,
  files,                \* the .picked and .labels files beside the models on disk
  status,               \* "ok", or "fault" once a call dereferenced a null pointer
  last,                 \* the last call: its arguments, what it returned, what it did
  \* ---- the objects beside the Model
  prims, nodes,         \* an index instance: its primitives and its hierarchy
  nbrs, inserted,       \* a bounded k-nearest collection, and all that was inserted
  sphere,               \* a BestFitSphere3
  matrix,               \* a VariantMatrix
  opts,                 \* App::opts
  threads,              \* the queries in flight on the Model, one per thread
  event                 \* the last call on one of these objects

model_vars == <<mesh_group, point_cloud, path, has_transform, trans, valid_kdtree, kdtree,
                valid_vertex_kdtree, vertex_kdtree, valid_pick, picked_sample,
                picked_segment, segments, samples, selected_sample, selected_segment,
                segment_depth_promotion,
                files, status, last>>

vars == <<model_vars, prims, nodes, nbrs, inserted, sphere, matrix, opts, threads, event>>

\* ---- the files beside a model: <path>.picked holds its samples, <path>.labels
\* its segments; header is the count on the first line, lines the lines after it
NoFile == [kind |-> "none", header |-> 0, lines |-> << >>]

\* FilePath::baseName: the file name without its extension
BaseName(p) ==
  IF p = "a.obj" THEN "a" ELSE IF p = "b.off" THEN "b" ELSE IF p = "c.pts" THEN "c" ELSE p

SideFiles == {BaseName(p) \o e : p \in Paths \cup {""}, e \in {".picked", ".labels"}}

\* a disk without such files
NoFiles == [f \in SideFiles |-> NoFile]

NullGroup == [isnull |-> TRUE, verts |-> << >>, faces |-> << >>, id |-> ""]

\* MeshGroup::clear() leaves an allocated group without meshes
ClearedGroup(g) == [g EXCEPT !.verts = << >>, !.faces = << >>]

GroupIsEmpty(g) == Len(g.verts) = 0 /\ Len(g.faces) = 0

\* the fields of the Model as one record, with the notes a call keeps while it runs:
\* trav lists the index traversals in order, each with the value its validity flag
\* had at that moment; kd_builds and vkd_builds count the rebuilds; passed lists
\* the bounds closestPoint passed to the face index
Self ==
  [mesh_group |-> mesh_group, point_cloud |-> point_cloud, path |-> path,
   has_transform |-> has_transform, trans |-> trans,
   valid_kdtree |-> valid_kdtree, kdtree |-> kdtree,
   valid_vertex_kdtree |-> valid_vertex_kdtree, vertex_kdtree |-> vertex_kdtree,
   valid_pick |-> valid_pick, picked_sample |-> picked_sample,
   picked_segment |-> picked_segment, segments |-> segments,
   samples |-> samples, selected_sample |-> selected_sample,
   selected_segment |-> selected_segment,
   segment_depth_promotion |-> segment_depth_promotion, files |-> files,
   status |-> status,
   trav |-> << >>, kd_builds |-> 0, vkd_builds |-> 0, passed |-> << >>]

NoSample == [mesh |-> "", face_index |-> 0 - 1, position |-> 0]

\* the initialisers with both indices marked invalid
ModelFields_invalid ==
  [mesh_group |-> NullGroup, point_cloud |-> "null", path |-> "",
   has_transform |-> FALSE, trans |-> 0,
   valid_kdtree |-> FALSE, kdtree |-> NewKDTree,
   valid_vertex_kdtree |-> FALSE, vertex_kdtree |-> NewKDTree,
   valid_pick |-> FALSE, picked_sample |-> NoSample,
   picked_segment |-> {}, segments |-> << >>,
   samples |-> << >>, selected_sample |-> 0 - 1, selected_segment |-> 0 - 1,
   segment_depth_promotion |-> 0,
   files |-> NoFiles,
   status |-> "ok",
   trav |-> << >>, kd_builds |-> 0, vkd_builds |-> 0, passed |-> << >>]

\* Model::Model, the member initialisers
ModelFields ==
  [mesh_group |-> NullGroup, point_cloud |-> "null", path |-> "",
   has_transform |-> FALSE, trans |-> 0,
   valid_kdtree |-> TRUE, kdtree |-> NewKDTree,
   valid_vertex_kdtree |-> TRUE, vertex_kdtree |-> NewKDTree,
   valid_pick |-> FALSE, picked_sample |-> NoSample,
   picked_segment |-> {}, segments |-> << >>,
   samples |-> << >>, selected_sample |-> 0 - 1, selected_segment |-> 0 - 1,
   segment_depth_promotion |-> 0,
   files |-> NoFiles,
   status |-> "ok",
   trav |-> << >>, kd_builds |-> 0, vkd_builds |-> 0, passed |-> << >>]

IsEmpty(m) ==
  (m.mesh_group.isnull \/ GroupIsEmpty(m.mesh_group)) /\ m.point_cloud # "points"

InvalidateKDTree(m) == [m EXCEPT !.valid_kdtree = FALSE]

InvalidateVertexKDTree(m) == [m EXCEPT !.valid_vertex_kdtree = FALSE]

InvalidateAll(m) == InvalidateKDTree(InvalidateVertexKDTree(m))

ClearMesh(m) ==
  LET m1 == IF m.mesh_group.isnull THEN m ELSE [m EXCEPT !.mesh_group = ClearedGroup(@)]
  IN [m1 EXCEPT !.samples = << >>, !.segments = << >>]

ClearPoints(m) ==
  IF m.point_cloud = "null" THEN m ELSE [m EXCEPT !.point_cloud = "empty"]

Clear(m) == InvalidateAll(ClearPoints(ClearMesh(m)))

\* updateKDTree that marks the tree valid without building it again
UpdateKDTree_stale(m) ==
  IF m.valid_kdtree THEN m ELSE [m EXCEPT !.valid_kdtree = TRUE, !.kd_builds = @ + 1]

\* updateKDTree that builds the tree and forgets to mark it valid
UpdateKDTree_noflag(m) ==
  IF m.valid_kdtree THEN m
  ELSE LET cleared == KDClear(m.kdtree)
           built == IF m.mesh_group.isnull THEN cleared
                    ELSE LET t == KDInitFaces(cleared, m.mesh_group)
                         IN IF m.has_transform THEN KDSetTransform(t, m.trans) ELSE t
       IN [m EXCEPT !.kdtree = built, !.kd_builds = @ + 1]

\* updateKDTree without the early return on a valid tree
UpdateKDTree_always(m) ==
  LET cleared == KDClear(m.kdtree)
      built == IF m.mesh_group.isnull THEN cleared
               ELSE LET t == KDInitFaces(cleared, m.mesh_group)
                    IN IF m.has_transform THEN KDSetTransform(t, m.trans) ELSE t
  IN [m EXCEPT !.kdtree = built, !.valid_kdtree = TRUE, !.kd_builds = @ + 1]

UpdateKDTree(m) ==
  IF m.valid_kdtree THEN m
  ELSE LET cleared == KDClear(m.kdtree)
           built == IF m.mesh_group.isnull THEN cleared
                    ELSE LET t == KDInitFaces(cleared, m.mesh_group)
                         IN IF m.has_transform THEN KDSetTransform(t, m.trans) ELSE t
       IN [m EXCEPT !.kdtree = built, !.valid_kdtree = TRUE, !.kd_builds = @ + 1]

\* mesh_group is dereferenced without a null check
UpdateVertexKDTree(m) ==
  IF m.valid_vertex_kdtree THEN m
  ELSE IF m.mesh_group.isnull
       THEN [m EXCEPT !.vertex_kdtree = KDClear(@), !.status = "fault"]
       ELSE LET t == KDInitVertices(KDClear(m.vertex_kdtree), m.mesh_group)
                built == IF m.has_transform THEN KDSetTransform(t, m.trans) ELSE t
            IN [m EXCEPT !.vertex_kdtree = built, !.valid_vertex_kdtree = TRUE,
                         !.vkd_builds = @ + 1]

GetKDTree(m, recompute_if_invalid) == IF recompute_if_invalid THEN UpdateKDTree(m) ELSE m

GetVertexKDTree(m, recompute_if_invalid) ==
  IF recompute_if_invalid THEN UpdateVertexKDTree(m) ELSE m

\* note that a query is about to walk an index
TraverseKD(m) == [m EXCEPT !.trav = Append(@, [tree |-> "kd", valid |-> m.valid_kdtree])]
TraverseVKD(m) ==
  [m EXCEPT !.trav = Append(@, [tree |-> "vkd", valid |-> m.valid_vertex_kdtree])]

\* setTransform that also invalidates the face index
SetTransformM_invalidate(m, s) ==
  [m EXCEPT !.has_transform = TRUE, !.trans = s, !.valid_kdtree = FALSE]

SetTransformM(m, s) ==
  LET m1 == [m EXCEPT !.has_transform = TRUE, !.trans = s]
      m2 == IF m1.valid_kdtree THEN [m1 EXCEPT !.kdtree = KDSetTransform(@, s)] ELSE m1
  IN IF m2.valid_vertex_kdtree THEN [m2 EXCEPT !.vertex_kdtree = KDSetTransform(@, s)] ELSE m2

ClearTransformM(m) ==
  LET m1 == [m EXCEPT !.has_transform = FALSE, !.trans = 0]
      m2 == IF m1.valid_kdtree THEN [m1 EXCEPT !.kdtree = KDClearTransform(@)] ELSE m1
  IN IF m2.valid_vertex_kdtree THEN [m2 EXCEPT !.vertex_kdtree = KDClearTransform(@)] ELSE m2

\* ---- queries: each yields <<the Model afterwards, the value returned>>
\* rayIntersection through getKDTree(false)
RayIntersectionM_norecompute(m, o, d, max_time) ==
  LET m1 == TraverseKD(GetKDTree(m, FALSE))
  IN <<m1, KDRayStructureIntersection(m1.kdtree, o, d, max_time)>>

\* rayIntersection that walks the tree as it stands and updates it afterwards
RayIntersectionM_late(m, o, d, max_time) ==
  LET m1 == TraverseKD(m)
  IN <<GetKDTree(m1, TRUE), KDRayStructureIntersection(m1.kdtree, o, d, max_time)>>

RayIntersectionM(m, o, d, max_time) ==
  LET m1 == TraverseKD(GetKDTree(m, TRUE))
  IN <<m1, KDRayStructureIntersection(m1.kdtree, o, d, max_time)>>

RayIntersectionTimeM(m, o, d, max_time) ==
  LET m1 == TraverseKD(GetKDTree(m, TRUE))
  IN <<m1, [NoneFound EXCEPT !.val = KDRayIntersectionTime(m1.kdtree, o, d, max_time)]>>

RayIntersectsM(m, o, d, max_time) ==
  LET m1 == TraverseKD(GetKDTree(m, TRUE))
  IN <<m1, [NoneFound EXCEPT !.val = IF KDRayIntersects(m1.kdtree, o, d, max_time) THEN 1 ELSE 0]>>

\* closestPoint that asks the face index again with the caller's bound when the
\* tightened bound found nothing
ClosestPointM_retry(m, query, distance_bound, accelerate_with_vertices) ==
  IF IsEmpty(m) THEN <<m, NoneFound>>
  ELSE LET m1 == IF accelerate_with_vertices THEN UpdateVertexKDTree(m) ELSE m
       IN IF m1.status = "fault" THEN <<m1, NoneFound>>
          ELSE LET m2 == IF accelerate_with_vertices THEN TraverseVKD(m1) ELSE m1
                   v == IF accelerate_with_vertices
                        THEN KDClosestElement(m2.vertex_kdtree, query, distance_bound)
                        ELSE NoneFound
                   bound == IF v.index >= 0 THEN v.val ELSE distance_bound
                   m3 == [TraverseKD(UpdateKDTree(m2)) EXCEPT !.passed = Append(@, bound)]
                   r == KDClosestElement(m3.kdtree, query, bound)
                   m4 == [TraverseKD(m3) EXCEPT !.passed = Append(@, distance_bound)]
               IN IF r.index < 0 /\ v.index >= 0
                  THEN <<m4, KDClosestElement(m4.kdtree, query, distance_bound)>>
                  ELSE <<m3, r>>

ClosestPointM(m, query, distance_bound, accelerate_with_vertices) ==
  IF IsEmpty(m) THEN <<m, NoneFound>>
  ELSE LET m1 == IF accelerate_with_vertices THEN UpdateVertexKDTree(m) ELSE m
       IN IF m1.status = "fault" THEN <<m1, NoneFound>>
          ELSE LET m2 == IF accelerate_with_vertices THEN TraverseVKD(m1) ELSE m1
                   v == IF accelerate_with_vertices
                        THEN KDClosestElement(m2.vertex_kdtree, query, distance_bound)
                        ELSE NoneFound
                   bound == IF v.index >= 0 THEN v.val ELSE distance_bound
                   m3 == [TraverseKD(UpdateKDTree(m2)) EXCEPT !.passed = Append(@, bound)]
                   r == KDClosestElement(m3.kdtree, query, bound)
               IN <<m3, r>>

\* pick that marks the pick valid whether or not it selected a face
PickM_markalways(m, o, d) ==
  LET q == RayIntersectionM(m, o, d, 0 - 1)
      m1 == q[1]
      isec == q[2]
      m2 == IF isec.index >= 0 THEN m1 ELSE TraverseKD(m1)
      cp == IF isec.index >= 0 THEN NoneFound ELSE KDClosestPairRay(m2.kdtree, o, d)
      t == IF isec.index >= 0 THEN isec.val ELSE IF cp.index >= 0 THEN 0 ELSE 0 - 1
      hit == IF isec.index >= 0 THEN isec ELSE IF cp.index >= 0 /\ t >= 0 THEN cp ELSE NoneFound
      m3 == IF hit.index >= 0
            THEN [m2 EXCEPT !.picked_sample = [mesh |-> hit.mesh, face_index |-> hit.index,
                                               position |-> hit.point],
                            !.valid_pick = TRUE]
            ELSE [m2 EXCEPT !.valid_pick = TRUE]
  IN <<m3, [hit EXCEPT !.val = t]>>

PickM(m, o, d) ==
  LET q == RayIntersectionM(m, o, d, 0 - 1)
      m1 == q[1]
      isec == q[2]
      m2 == IF isec.index >= 0 THEN m1 ELSE TraverseKD(m1)
      cp == IF isec.index >= 0 THEN NoneFound ELSE KDClosestPairRay(m2.kdtree, o, d)
      \* t = (cp.getQueryPoint() - ray.getOrigin()).dot(direction): the query point
      \* of a pair found for a missing ray is the origin
      t == IF isec.index >= 0 THEN isec.val ELSE IF cp.index >= 0 THEN 0 ELSE 0 - 1
      hit == IF isec.index >= 0 THEN isec ELSE IF cp.index >= 0 /\ t >= 0 THEN cp ELSE NoneFound
      m3 == IF hit.index >= 0
            THEN [m2 EXCEPT !.picked_sample = [mesh |-> hit.mesh, face_index |-> hit.index,
                                               position |-> hit.point],
                            !.valid_pick = TRUE]
            ELSE m2
  IN <<m3, [hit EXCEPT !.val = t]>>

\* Model::getSegment: is the mesh in a committed segment
InSegment(m, mesh) == \E i \in 1..Len(m.segments) : mesh \in m.segments[i]

\* With one mesh per group, the meshes similar to the picked one are that mesh.
TogglePickMeshM(m, o, d, extend_to_similar) ==
  LET q == RayIntersectionM(m, o, d, 0 - 1)
      isec == q[2]
  IN IF isec.index < 0 THEN <<q[1], isec>>
     ELSE LET m1 == TraverseKD(q[1])
              mesh == isec.mesh
              add == mesh \notin m1.picked_segment
              toggled == IF add THEN m1.picked_segment \cup {mesh}
                         ELSE m1.picked_segment \ {mesh}
              extended == IF ~extend_to_similar THEN toggled
                          ELSE IF add THEN toggled \cup {mesh} ELSE toggled \ {mesh}
          IN IF InSegment(m1, mesh) THEN <<m1, NoneFound>>
             ELSE <<[m1 EXCEPT !.picked_segment = extended], isec>>

\* ---- samples
\* Mesh::mapIndexToFace: the faces of the mesh group loaded last, by index
HasFace(m, face_index) ==
  ~m.mesh_group.isnull /\ face_index >= 0 /\ face_index < Len(m.mesh_group.faces)

FaceOf(m, face_index) == TriangleOf(m.mesh_group, face_index + 1)

\* the numbers a samples file may hold, and their text
Numbers == (0 - 1)..(MaxCoord + MaxShift + 1)
IsNumber(token) == \E n \in Numbers : ToString(n) = token
Number(token) == CHOOSE n \in Numbers : ToString(n) = token

\* what operator>> finds on a line written with ' ' between the fields: an empty
\* string leaves no token
Tokens(fields) == SelectSeq(fields, LAMBDA t : t # "")

\* the barycentric coordinates of a position on a face, here its offset from the
\* first vertex of the projection on the face, and the way back
Barycentric(position, face) == ClosestOn(position, face) - face.lo
FromBarycentric(bary, face) == face.lo + bary

\* Sample(): what samples.resize(n) fills the list with
DefaultSample == [mesh |-> "", face_index |-> 0 - 1, position |-> 0, type |-> "", label |-> ""]

\* the line saveSamples writes for a sample
SampleLine(m, sample) ==
  Tokens(<<sample.type, ToString(sample.face_index),
           ToString(Barycentric(sample.position, FaceOf(m, sample.face_index))),
           sample.label, ToString(sample.position)>>)

\* can saveSamples write the sample: its face is known and belongs to its mesh
Writable(m, sample) ==
  HasFace(m, sample.face_index) /\ m.mesh_group.id = sample.mesh

\* saveSamples: <<the file written, the value returned>>; the count comes first,
\* then a line per sample up to the first that cannot be written
SaveSamplesM(m) ==
  LET n == Len(m.samples)
      bad == {i \in 1..n : ~Writable(m, m.samples[i])}
      k == IF bad = {} THEN n ELSE (CHOOSE i \in bad : \A j \in bad : i <= j) - 1
  IN <<[kind |-> "picked", header |-> n,
        lines |-> [i \in 1..k |-> SampleLine(m, m.samples[i])]],
       bad = {}>>

\* a line of a samples file can be read: the face of its second field is known
\* (the lines are those saveSamples writes for samples with a type, or hold the
\* same fields)
Readable(m, line) == HasFace(m, Number(line[2]))

\* the sample read from a line: the label is the next token if there is one, the
\* position the token after it if it is a number, else from the coordinates
ReadSample(m, line) ==
  LET face_index == Number(line[2])
      label == IF Len(line) >= 4 THEN line[4] ELSE ""
      read_pos == Len(line) >= 5 /\ IsNumber(line[5])
  IN [mesh |-> m.mesh_group.id, face_index |-> face_index,
      position |-> IF read_pos THEN Number(line[5])
                   ELSE FromBarycentric(Number(line[3]), FaceOf(m, face_index)),
      type |-> line[1], label |-> label]

\* loadSamples: <<the Model afterwards, the value returned>>; the list is cleared,
\* resized to the count of the header and filled up to the first line that fails
LoadSamplesM(m, file) ==
  IF file.kind = "none" \/ file.header < 0 THEN <<[m EXCEPT !.samples = << >>], FALSE>>
  ELSE LET n == file.header
           bad == {i \in 1..n : i > Len(file.lines) \/ ~Readable(m, file.lines[i])}
           k == IF bad = {} THEN n + 1 ELSE CHOOSE i \in bad : \A j \in bad : i <= j
       IN <<[m EXCEPT !.samples = [i \in 1..n |-> IF i < k THEN ReadSample(m, file.lines[i])
                                                  ELSE DefaultSample]],
            bad = {}>>

\* getSamplesPath, getSegmentsPath
SamplesPath(m) == BaseName(m.path) \o ".picked"
SegmentsPath(m) == BaseName(m.path) \o ".labels"

AddSampleM(m, sample) == [m EXCEPT !.samples = Append(@, sample)]

\* the vertex of the face nearest to the position, the first one among equals
NearestVertex(m, face_index, position) ==
  LET t == m.mesh_group.faces[face_index + 1]
      v == [i \in 1..3 |-> m.mesh_group.verts[t[i]]]
      dist(i) == IF v[i] > position THEN v[i] - position ELSE position - v[i]
      best == CHOOSE i \in 1..3 :
                /\ \A j \in 1..3 : dist(i) <= dist(j)
                /\ \A j \in 1..(i - 1) : dist(j) > dist(i)
  IN v[best]

\* addPickedSample: <<the Model afterwards, the value returned>>
AddPickedSampleM(m, label, snap_to_vertex) ==
  IF ~m.valid_pick THEN <<m, FALSE>>
  ELSE IF snap_to_vertex /\ ~HasFace(m, m.picked_sample.face_index) THEN <<m, FALSE>>
  ELSE LET picked == m.picked_sample
           sample == [mesh |-> picked.mesh, face_index |-> picked.face_index,
                      position |-> IF snap_to_vertex
                                   THEN NearestVertex(m, picked.face_index, picked.position)
                                   ELSE picked.position,
                      type |-> "Picked", label |-> label]
           m1 == [m EXCEPT !.samples = Append(@, sample)]
       IN <<[m1 EXCEPT !.files[SamplesPath(m1)] = SaveSamplesM(m1)[1]], TRUE>>

RemoveSampleM(m, index) ==
  IF index >= 0 /\ index < Len(m.samples)
  THEN LET m1 == [m EXCEPT !.samples = [i \in 1..(Len(@) - 1) |->
                                          IF i <= index THEN @[i] ELSE @[i + 1]]]
       IN [m1 EXCEPT !.files[SamplesPath(m1)] = SaveSamplesM(m1)[1],
                     !.selected_sample = 0 - 1]
  ELSE m

SelectSampleM(m, index) == [m EXCEPT !.selected_sample = index]

\* ---- segments on disk
\* saveSegments: a line per segment with the first face of each of its meshes
SaveSegmentsM(m) ==
  [kind |-> "labels", header |-> 0,
   lines |-> [i \in 1..Len(m.segments) |->
                IF ~m.mesh_group.isnull /\ m.mesh_group.id \in m.segments[i]
                   /\ Len(m.mesh_group.faces) > 0
                THEN <<0>> ELSE << >>]]

\* loadSegments: <<the Model afterwards, the value returned>>; a segment is the
\* set of the meshes of its faces, kept when it is not empty; a failure clears
LoadSegmentsM(m, file) ==
  IF file.kind = "none" THEN <<[m EXCEPT !.segments = << >>], FALSE>>
  ELSE LET bad == \E i \in 1..Len(file.lines) : \E j \in 1..Len(file.lines[i]) :
                    ~HasFace(m, file.lines[i][j])
           kept == SelectSeq(file.lines, LAMBDA l : Len(l) > 0)
       IN IF bad THEN <<[m EXCEPT !.segments = << >>], FALSE>>
          ELSE <<[m EXCEPT !.segments = [i \in 1..Len(kept) |-> {m.mesh_group.id}]], TRUE>>

\* ---- editing the segments
\* Segment::minDepth: -1 for no meshes, else the depth of the meshes, which all lie
\* one level under the root of the mesh group
MeshDepth == 1
MinDepth(segment) == IF segment = {} THEN 0 - 1 ELSE MeshDepth

PromotePickedSegmentM(m, offset) ==
  LET moved == m.segment_depth_promotion + offset
      promotion == IF moved < 0 THEN 0 ELSE moved
      min_depth == MinDepth(m.picked_segment)
  IN [m EXCEPT !.segment_depth_promotion =
                 IF min_depth >= 0 /\ promotion >= min_depth
                 THEN Max2(min_depth - 1, 0) ELSE promotion]

AddSegmentM(m, segment) == [m EXCEPT !.segments = Append(@, segment)]

\* addPickedSegment: <<the Model afterwards, the value returned>>
AddPickedSegmentM(m, label) ==
  IF label = "" THEN <<m, FALSE>>
  ELSE IF m.picked_segment = {} THEN <<m, FALSE>>
  ELSE LET m1 == [m EXCEPT !.segments = Append(@, m.picked_segment)]
       IN <<[m1 EXCEPT !.files[SegmentsPath(m1)] = SaveSegmentsM(m1)], TRUE>>

RemoveSegmentM(m, index) ==
  IF index >= 0 /\ index < Len(m.segments)
  THEN LET m1 == [m EXCEPT !.segments = [i \in 1..(Len(@) - 1) |->
                                           IF i <= index THEN @[i] ELSE @[i + 1]]]
       IN [m1 EXCEPT !.files[SegmentsPath(m1)] = SaveSegmentsM(m1),
                     !.selected_segment = 0 - 1]
  ELSE m

SelectSegmentM(m, index) == [m EXCEPT !.selected_segment = index]

\* ---- files: what a path holds when load() opens it
Missing == [kind |-> "missing", verts |-> << >>, faces |-> << >>]
Unreadable == [kind |-> "unreadable", verts |-> << >>, faces |-> << >>]
PointsFile == [kind |-> "points", verts |-> << >>, faces |-> << >>]
MeshFile(c) == [kind |-> "mesh", verts |-> c.verts, faces |-> c.faces]

\* what may be found at a path of the life-cycle specification's disk
FilesAt(path_) ==
  IF path_ = "" THEN {Missing}
  ELSE IF path_ \in PtsPaths THEN {Missing, Unreadable, PointsFile}
  ELSE {Missing, Unreadable, MeshFile(DiskMesh(path_))}

\* Model::load: <<the Model afterwards, the value returned>>
LoadM(m, path_, file) ==
  IF path_ = "" THEN <<m, FALSE>>
  ELSE IF file.kind = "missing" \/ path_ = m.path THEN <<m, FALSE>>
  ELSE IF path_ \in PtsPaths
  THEN LET c == Clear(m)
       IN IF file.kind # "points"
          THEN <<[c EXCEPT !.point_cloud = "empty"], FALSE>>
          ELSE <<[c EXCEPT !.point_cloud = "points", !.path = path_], TRUE>>
  ELSE IF file.kind # "mesh" THEN <<m, FALSE>>
  ELSE LET m1 == InvalidateAll(m)
           m2 == [m1 EXCEPT !.mesh_group = [isnull |-> FALSE, verts |-> file.verts,
                                            faces |-> file.faces, id |-> path_]]
           m3 == [ClearPoints(m2) EXCEPT !.path = path_]
           m4 == LoadSamplesM(m3, m3.files[SamplesPath(m3)])[1]
       IN <<LoadSegmentsM(m4, m4.files[SegmentsPath(m4)])[1], TRUE>>

\* ---- the record of a call
Call(op, args, m0, m, ret) ==
  [op |-> op, q |-> args.q, dir |-> args.dir, bnd |-> args.bnd, accel |-> args.accel,
   path_ |-> args.path_, file |-> args.file,
   ret |-> ret, trav |-> m.trav, kd_builds |-> m.kd_builds, vkd_builds |-> m.vkd_builds,
   pre_kd |-> m0.valid_kdtree, pre_vkd |-> m0.valid_vertex_kdtree,
   passed |-> m.passed, twice |-> FALSE, first |-> NoneFound, first_builds |-> 0]

NoArgs == [q |-> 0, dir |-> 0, bnd |-> 0, accel |-> FALSE, path_ |-> "", file |-> "none"]
Flag(b) == [NoneFound EXCEPT !.val = IF b THEN 1 ELSE 0]

\* the Model's fields after a call, and the record of the call
Store(m, l) ==
  /\ mesh_group' = m.mesh_group
  /\ point_cloud' = m.point_cloud
  /\ path' = m.path
  /\ has_transform' = m.has_transform
  /\ trans' = m.trans
  /\ valid_kdtree' = m.valid_kdtree
  /\ kdtree' = m.kdtree
  /\ valid_vertex_kdtree' = m.valid_vertex_kdtree
  /\ vertex_kdtree' = m.vertex_kdtree
  /\ valid_pick' = m.valid_pick
  /\ picked_sample' = m.picked_sample
  /\ picked_segment' = m.picked_segment
  /\ segments' = m.segments
  /\ samples' = m.samples
  /\ selected_sample' = m.selected_sample
  /\ selected_segment' = m.selected_segment
  /\ segment_depth_promotion' = m.segment_depth_promotion
  /\ files' = m.files
  /\ status' = m.status
  /\ last' = l

Commit(m, l) ==
  /\ Store(m, l)
  /\ UNCHANGED <<prims, nodes, nbrs, inserted, sphere, matrix, opts, threads, event>>

\* Model::Model(initial_mesh): the initialisers, then load(initial_mesh)
Construct(path_, file) ==
  LET r == LoadM(ModelFields, path_, file)
      l == Call("Model", [NoArgs EXCEPT !.path_ = path_, !.file = file.kind],
                ModelFields, r[1], Flag(r[2]))
  IN /\ mesh_group = r[1].mesh_group
     /\ point_cloud = r[1].point_cloud
     /\ path = r[1].path
     /\ has_transform = r[1].has_transform
     /\ trans = r[1].trans
     /\ valid_kdtree = r[1].valid_kdtree
     /\ kdtree = r[1].kdtree
     /\ valid_vertex_kdtree = r[1].valid_vertex_kdtree
     /\ vertex_kdtree = r[1].vertex_kdtree
     /\ valid_pick = r[1].valid_pick
     /\ picked_sample = r[1].picked_sample
     /\ picked_segment = r[1].picked_segment
     /\ segments = r[1].segments
     /\ samples = r[1].samples
     /\ selected_sample = r[1].selected_sample
     /\ selected_segment = r[1].selected_segment
     /\ segment_depth_promotion = r[1].segment_depth_promotion
     /\ files = r[1].files
     /\ status = r[1].status
     /\ last = l

\* ---- the objects beside the Model, as their constructors leave them
\* a null bounding volume: min above max
NullBox == [lo |-> 0, hi |-> 0 - 1]

\* static int const MAX_NBRS, the capacity of the visitor's neighbour array
MAX_NBRS == 8

\* BoundedSortedArrayN<N, T>: capacity and the entries in ascending order
NewSortedArray(N) == [N |-> N, elems |-> << >>]

NewSphere == [points |-> << >>, ball |-> NullBox, updated |-> TRUE]

\* VariantMatrix(): type NONE over two matrices of no rows and no columns
NewMatrix ==
  [type |-> "NONE", dense |-> [rows |-> 0, cols |-> 0], sparse |-> [rows |-> 0, cols |-> 0]]

\* App::Options::Options(): bg_color black, the strings empty
NewOptions ==
  [plugin_dir |-> "", resource_dir |-> "", working_dir |-> "", model |-> "",
   bg_plain |-> FALSE, bg_color |-> "black"]

Threads == {1, 2}
IdleThread == [pc |-> "idle", op |-> "", q |-> 0, dir |-> 0, bnd |-> 0, accel |-> FALSE,
               bound |-> 0, ret |-> NoneFound, wrote |-> FALSE]

NoEvent == [op |-> "", args |-> << >>, ret |-> 0]

\* none of these objects is in use
Detached ==
  /\ prims = << >>
  /\ nodes = << >>
  /\ nbrs = NewSortedArray(MAX_NBRS)
  /\ inserted = << >>
  /\ sphere = NewSphere
  /\ matrix = NewMatrix
  /\ opts = NewOptions
  /\ threads = [t \in Threads |-> IdleThread]
  /\ event = NoEvent

Init ==
  /\ \E path_ \in Paths \cup {""} : \E file \in FilesAt(path_) : Construct(path_, file)
  /\ Detached

\* ---- actions
Load(path_, file) ==
  /\ status = "ok"
  /\ LET r == LoadM(Self, path_, file)
     IN Commit(r[1], Call("load", [NoArgs EXCEPT !.path_ = path_, !.file = file.kind],
                          Self, r[1], Flag(r[2])))

ClearModel ==
  /\ status = "ok"
  /\ Commit(Clear(Self), Call("clear", NoArgs, Self, Clear(Self), NoneFound))

DoInvalidateAll ==
  /\ status = "ok"
  /\ Commit(InvalidateAll(Self), Call("invalidateAll", NoArgs, Self, Self, NoneFound))

DoInvalidateKDTree ==
  /\ status = "ok"
  /\ Commit(InvalidateKDTree(Self), Call("invalidateKDTree", NoArgs, Self, Self, NoneFound))

DoInvalidateVertexKDTree ==
  /\ status = "ok"
  /\ Commit(InvalidateVertexKDTree(Self),
            Call("invalidateVertexKDTree", NoArgs, Self, Self, NoneFound))

SetTransform(s) ==
  /\ status = "ok"
  /\ Commit(SetTransformM(Self, s),
            Call("setTransform", [NoArgs EXCEPT !.q = s], Self, Self, NoneFound))

ClearTransform ==
  /\ status = "ok"
  /\ Commit(ClearTransformM(Self), Call("clearTransform", NoArgs, Self, Self, NoneFound))

RayIntersects(o, d, max_time) ==
  /\ status = "ok"
  /\ LET r == RayIntersectsM(Self, o, d, max_time)
     IN Commit(r[1], Call("rayIntersects", [NoArgs EXCEPT !.q = o, !.dir = d, !.bnd = max_time],
                          Self, r[1], r[2]))

RayIntersectionTime(o, d, max_time) ==
  /\ status = "ok"
  /\ LET r == RayIntersectionTimeM(Self, o, d, max_time)
     IN Commit(r[1], Call("rayIntersectionTime",
                          [NoArgs EXCEPT !.q = o, !.dir = d, !.bnd = max_time], Self, r[1], r[2]))

RayIntersection(o, d, max_time) ==
  /\ status = "ok"
  /\ LET r == RayIntersectionM(Self, o, d, max_time)
     IN Commit(r[1], Call("rayIntersection",
                          [NoArgs EXCEPT !.q = o, !.dir = d, !.bnd = max_time], Self, r[1], r[2]))

ClosestPoint(query, distance_bound, accelerate_with_vertices) ==
  /\ status = "ok"
  /\ LET r == ClosestPointM(Self, query, distance_bound, accelerate_with_vertices)
     IN Commit(r[1], Call("closestPoint",
                          [NoArgs EXCEPT !.q = query, !.bnd = distance_bound,
                                         !.accel = accelerate_with_vertices], Self, r[1], r[2]))

Pick(o, d) ==
  /\ status = "ok"
  /\ \E r \in {PickM(Self, o, d)} :
       Commit(r[1], Call("pick", [NoArgs EXCEPT !.q = o, !.dir = d], Self, r[1], r[2]))

TogglePickMesh(o, d, extend_to_similar) ==
  /\ status = "ok"
  /\ \E r \in {TogglePickMeshM(Self, o, d, extend_to_similar)} :
       Commit(r[1], Call("togglePickMesh",
                         [NoArgs EXCEPT !.q = o, !.dir = d, !.accel = extend_to_similar],
                         Self, r[1], r[2]))

\* Model::clearMesh called on its own
DoClearMesh ==
  /\ status = "ok"
  /\ Commit(ClearMesh(Self), Call("clearMesh", NoArgs, Self, Self, NoneFound))

\* the query points, bounds and time limits of the life-cycle specification
LifePoints == {0}
LifeBounds == {0 - 1, 0}

\* the operations on geometry, indices and transform
Mutate ==
  \/ \E path_ \in Paths \cup {""} : \E file \in FilesAt(path_) : Load(path_, file)
  \/ ClearModel
  \/ DoInvalidateAll
  \/ DoInvalidateKDTree
  \/ DoInvalidateVertexKDTree

Query ==
  \/ \E o \in LifePoints, d \in Dirs, t \in LifeBounds : RayIntersects(o, d, t)
  \/ \E o \in LifePoints, d \in Dirs, t \in LifeBounds : RayIntersectionTime(o, d, t)
  \/ \E o \in LifePoints, d \in Dirs, t \in LifeBounds : RayIntersection(o, d, t)
  \/ \E q \in LifePoints, b \in LifeBounds, a \in BOOLEAN : ClosestPoint(q, b, a)

Next ==
  \/ Mutate
  \/ \E s \in Shifts : SetTransform(s)
  \/ ClearTransform
  \/ Query

\* the index life cycle under loads, invalidations, transforms and queries
Spec == Init /\ [][Next]_vars

NextPick ==
  \/ Mutate
  \/ Query
  \/ \E o \in LifePoints, d \in Dirs : Pick(o, d)
  \/ \E o \in LifePoints, d \in Dirs, e \in BOOLEAN : TogglePickMesh(o, d, e)

\* every query entry point, picking included, under loads and invalidations
SpecPick == Init /\ [][NextPick]_vars

NextHelpers ==
  \/ Next
  \/ DoClearMesh

\* the life cycle when clearMesh is also called on its own
SpecHelpers == Init /\ [][NextHelpers]_vars

\* a model constructed from any mesh file within the bounds
InitMesh ==
  /\ \E c \in MeshFiles : Construct("a.obj", MeshFile(c))
  /\ Detached

NextClosest == \E q \in Coord, b \in Bounds, a \in BOOLEAN : ClosestPoint(q, b, a)

\* closestPoint over every mesh, query point and bound
SpecClosest == InitMesh /\ [][NextClosest]_vars

NextRay == \E o \in Coord, d \in Dirs, t \in Bounds : RayIntersection(o, d, t)

\* rayIntersection over every mesh, ray and time limit
SpecRay == InitMesh /\ [][NextRay]_vars

\* ---- the same query twice in a row
\* a call begins with empty notes
Fresh(m) == [m EXCEPT !.trav = << >>, !.kd_builds = 0, !.vkd_builds = 0, !.passed = << >>]

\* the caller repeats a query at once with the same arguments: r1 is the first
\* call, the second runs on the Model the first left
Repeated(op, args, r1, r2) ==
  Commit(r2[1], [Call(op, args, r1[1], r2[1], r2[2]) EXCEPT
                   !.twice = TRUE, !.first = r1[2],
                   !.first_builds = r1[1].kd_builds + r1[1].vkd_builds])

RayIntersectsTwice(o, d, max_time) ==
  /\ status = "ok"
  /\ \E r1 \in {RayIntersectsM(Self, o, d, max_time)} :
     \E r2 \in {RayIntersectsM(Fresh(r1[1]), o, d, max_time)} :
       Repeated("rayIntersects", [NoArgs EXCEPT !.q = o, !.dir = d, !.bnd = max_time], r1, r2)

RayIntersectionTimeTwice(o, d, max_time) ==
  /\ status = "ok"
  /\ \E r1 \in {RayIntersectionTimeM(Self, o, d, max_time)} :
     \E r2 \in {RayIntersectionTimeM(Fresh(r1[1]), o, d, max_time)} :
       Repeated("rayIntersectionTime", [NoArgs EXCEPT !.q = o, !.dir = d, !.bnd = max_time],
                r1, r2)

RayIntersectionTwice(o, d, max_time) ==
  /\ status = "ok"
  /\ \E r1 \in {RayIntersectionM(Self, o, d, max_time)} :
     \E r2 \in {RayIntersectionM(Fresh(r1[1]), o, d, max_time)} :
       Repeated("rayIntersection", [NoArgs EXCEPT !.q = o, !.dir = d, !.bnd = max_time],
                r1, r2)

ClosestPointTwice(query, distance_bound, accelerate_with_vertices) ==
  /\ status = "ok"
  /\ \E r1 \in {ClosestPointM(Self, query, distance_bound, accelerate_with_vertices)} :
     \E r2 \in {ClosestPointM(Fresh(r1[1]), query, distance_bound, accelerate_with_vertices)} :
       Repeated("closestPoint",
                [NoArgs EXCEPT !.q = query, !.bnd = distance_bound,
                               !.accel = accelerate_with_vertices], r1, r2)

PickTwice(o, d) ==
  /\ status = "ok"
  /\ \E r1 \in {PickM(Self, o, d)} :
     \E r2 \in {PickM(Fresh(r1[1]), o, d)} :
       Repeated("pick", [NoArgs EXCEPT !.q = o, !.dir = d], r1, r2)

\* query points at both ends of the coordinate range; no bound and a bound of 1
RepeatPoints == {0, MaxCoord}
RepeatBounds == {0 - 1, 1}

NextRepeat ==
  \/ \E o \in RepeatPoints, d \in Dirs, t \in RepeatBounds : RayIntersectsTwice(o, d, t)
  \/ \E o \in RepeatPoints, d \in Dirs, t \in RepeatBounds : RayIntersectionTimeTwice(o, d, t)
  \/ \E o \in RepeatPoints, d \in Dirs, t \in RepeatBounds : RayIntersectionTwice(o, d, t)
  \/ \E q \in RepeatPoints, b \in RepeatBounds, a \in BOOLEAN : ClosestPointTwice(q, b, a)
  \/ \E o \in RepeatPoints, d \in Dirs : PickTwice(o, d)
  \/ Mutate

\* every query repeated at once, between loads, clears and invalidations
SpecRepeat == Init /\ [][NextRepeat]_vars

\* ---- queries from several threads
\* A query in flight is at one of its statements: updateVertexKDTree(), the walk
\* of the vertex index, updateKDTree(), the walk of the face index, the return.
AllIdle == \A t \in Threads : threads[t].pc = "idle"

\* what a thread's step leaves alone
ThreadFrame == UNCHANGED <<prims, nodes, nbrs, inserted, sphere, matrix, opts, event>>

\* a thread enters a query while both indices are valid
Begin(t, op, o, d, bnd, accel) ==
  /\ status = "ok"
  /\ threads[t].pc = "idle"
  /\ valid_kdtree /\ valid_vertex_kdtree
  /\ threads' = [threads EXCEPT ![t] =
       [IdleThread EXCEPT
          !.op = op, !.q = o, !.dir = d, !.bnd = bnd, !.accel = accel, !.bound = bnd,
          !.pc = IF op = "closestPoint" /\ IsEmpty(Self) THEN "done"
                 ELSE IF op = "closestPoint" /\ accel THEN "updateVertexKDTree"
                 ELSE "updateKDTree"]]
  /\ UNCHANGED model_vars
  /\ ThreadFrame

\* updateVertexKDTree(): returns at once on a valid index, rebuilds otherwise
ThreadUpdateVertexKDTree(t) ==
  /\ threads[t].pc = "updateVertexKDTree"
  /\ \E m \in {UpdateVertexKDTree(Self)} :
       /\ Store(m, last)
       /\ threads' = [threads EXCEPT ![t].pc = "walkVertexKDTree",
                                     ![t].wrote = @ \/ m # Self]
  /\ ThreadFrame

\* vertex_kdtree->closestElement(query, distance_bound, &fast_distance_bound)
ThreadWalkVertexKDTree(t) ==
  /\ threads[t].pc = "walkVertexKDTree"
  /\ \E v \in {KDClosestElement(vertex_kdtree, threads[t].q, threads[t].bnd)} :
       threads' = [threads EXCEPT ![t].pc = "updateKDTree",
                                  ![t].bound = IF v.index >= 0 THEN v.val ELSE @]
  /\ UNCHANGED model_vars
  /\ ThreadFrame

\* updateKDTree(): returns at once on a valid index, rebuilds otherwise
ThreadUpdateKDTree(t) ==
  /\ threads[t].pc = "updateKDTree"
  /\ \E m \in {UpdateKDTree(Self)} :
       /\ Store(m, last)
       /\ threads' = [threads EXCEPT ![t].pc = "walkKDTree", ![t].wrote = @ \/ m # Self]
  /\ ThreadFrame

\* the traversal of the face index, which reads it
ThreadWalkKDTree(t) ==
  /\ threads[t].pc = "walkKDTree"
  /\ LET th == threads[t]
         r == IF th.op = "closestPoint" THEN KDClosestElement(kdtree, th.q, th.bound)
              ELSE IF th.op = "rayIntersection"
              THEN KDRayStructureIntersection(kdtree, th.q, th.dir, th.bnd)
              ELSE IF th.op = "rayIntersectionTime"
              THEN [NoneFound EXCEPT !.val = KDRayIntersectionTime(kdtree, th.q, th.dir, th.bnd)]
              ELSE [NoneFound EXCEPT
                      !.val = IF KDRayIntersects(kdtree, th.q, th.dir, th.bnd) THEN 1 ELSE 0]
     IN threads' = [threads EXCEPT ![t].pc = "done", ![t].ret = r]
  /\ UNCHANGED model_vars
  /\ ThreadFrame

\* the query returns to its caller
ThreadReturn(t) ==
  /\ threads[t].pc = "done"
  /\ threads' = [threads EXCEPT ![t] = IdleThread]
  /\ UNCHANGED model_vars
  /\ ThreadFrame

\* between the concurrent queries, one thread at a time: loads, invalidations
\* and a query that rebuilds both indices
Serial ==
  /\ AllIdle
  /\ \/ \E path_ \in Paths : \E file \in FilesAt(path_) : Load(path_, file)
     \/ DoInvalidateAll
     \/ \E q \in LifePoints : ClosestPoint(q, 0 - 1, TRUE)

NextConcurrent ==
  \/ Serial
  \/ \E t \in Threads, op \in {"rayIntersects", "rayIntersectionTime", "rayIntersection"},
        o \in LifePoints, d \in Dirs :
       Begin(t, op, o, d, 0 - 1, FALSE)
  \/ \E t \in Threads, q \in LifePoints, b \in LifeBounds, a \in BOOLEAN :
       Begin(t, "closestPoint", q, 0, b, a)
  \/ \E t \in Threads : ThreadUpdateVertexKDTree(t)
  \/ \E t \in Threads : ThreadWalkVertexKDTree(t)
  \/ \E t \in Threads : ThreadUpdateKDTree(t)
  \/ \E t \in Threads : ThreadWalkKDTree(t)
  \/ \E t \in Threads : ThreadReturn(t)

\* read-only queries of two threads interleaved at their statements
SpecConcurrent == Init /\ [][NextConcurrent]_vars

\* ------------------------------------------------------------ index instance
\* The bounding-volume hierarchy of an index and its k-nearest query.
MaxPrims == 3
MaxExtent == 1
MaxCap == 2
MaxInserts == 4

\* leaf-size threshold of the hierarchy
LeafSize == 1

\* a strict binary tree over n primitives has at most 2n - 1 nodes
MaxNodes == 2 * MaxPrims - 1

Points == {[lo |-> c, hi |-> c] : c \in Coord}
Segments == {e \in [lo : Coord, hi : Coord] : e.lo <= e.hi /\ e.hi - e.lo <= MaxExtent}
PrimLists(S) == UNION {[1..n -> S] : n \in 0..MaxPrims}

\* ---- bounding volume
IsNull(b) == b.lo > b.hi
BoxOf(e) == [lo |-> e.lo, hi |-> e.hi]
\* a merge that keeps its first operand
Merge_first(a, b) == a

Merge(a, b) ==
  IF IsNull(a) THEN b
  ELSE IF IsNull(b) THEN a
  ELSE [lo |-> Min2(a.lo, b.lo), hi |-> Max2(a.hi, b.hi)]
BoxContains(a, b) == IsNull(b) \/ (~IsNull(a) /\ a.lo <= b.lo /\ b.hi <= a.hi)

\* the bounding volume of the primitives items[i..], merged one by one
RECURSIVE BoxOfItems(_, _, _)
BoxOfItems(ps, items, i) ==
  IF i > Len(items) THEN NullBox
  ELSE Merge(BoxOf(ps[items[i]]), BoxOfItems(ps, items, i + 1))

\* twice the centroid of a primitive, to stay in the integers
Centroid2(e) == e.lo + e.hi

\* ---- hierarchy builder
\* the primitives of a node ordered by centroid, equal centroids in index order
ByCentroid(ps, items) ==
  LET n == Len(items)
      rank(i) == Cardinality({j \in 1..n :
                   \/ Centroid2(ps[items[j]]) < Centroid2(ps[items[i]])
                   \/ Centroid2(ps[items[j]]) = Centroid2(ps[items[i]]) /\ j < i})
  IN [k \in 1..n |-> items[CHOOSE i \in 1..n : rank(i) = k - 1]]

\* a split at the median position that sends a primitive left when its centroid
\* lies below the median centroid, with no fallback
SplitHalves_byposition(ps, items) ==
  LET n == Len(items)
      median == Centroid2(ps[ByCentroid(ps, items)[(n \div 2) + 1]])
      below == SelectSeq(items, LAMBDA i : Centroid2(ps[i]) < median)
      rest == SelectSeq(items, LAMBDA i : Centroid2(ps[i]) >= median)
  IN <<below, rest>>

\* the two halves of a node: split at the median centroid; when all centroids
\* are identical, at the median of the index order
SplitHalves(ps, items) ==
  LET n == Len(items)
      identical == \A i, j \in 1..n : Centroid2(ps[items[i]]) = Centroid2(ps[items[j]])
      order == IF identical THEN items ELSE ByCentroid(ps, items)
  IN <<SubSeq(order, 1, n \div 2), SubSeq(order, (n \div 2) + 1, n)>>

NewNode(items, parent) ==
  [items |-> items, state |-> "pending", bv |-> NullBox, left |-> 0, right |-> 0,
   parent |-> parent]

\* init(): an empty tree for no primitives, otherwise the root awaiting its build
RootOf(ps) == IF Len(ps) = 0 THEN << >> ELSE <<NewNode([i \in 1..Len(ps) |-> i], 0)>>

IsBuilt(node) == node.state \in {"leaf", "internal"}
Built == \A n \in 1..Len(nodes) : IsBuilt(nodes[n])

\* the node the recursion works on: the pending node created last
Pending(n) ==
  /\ n \in 1..Len(nodes)
  /\ nodes[n].state = "pending"
  /\ \A m \in (n + 1)..Len(nodes) : nodes[m].state # "pending"

\* step 2: a node of at most LeafSize primitives becomes a leaf
EmitLeaf ==
  /\ \E n \in 1..Len(nodes) :
       /\ Pending(n)
       /\ Len(nodes[n].items) <= LeafSize
       /\ nodes' = [nodes EXCEPT ![n].state = "leaf",
                                 ![n].bv = BoxOfItems(prims, nodes[n].items, 1)]
  /\ event' = [op |-> "emitLeaf", args |-> << >>, ret |-> 0]
  /\ UNCHANGED <<model_vars, prims, nbrs, inserted, sphere, matrix, opts, threads>>

\* steps 3 to 5: a larger node is split into two halves, which await their build
SplitNode ==
  /\ Len(nodes) + 2 <= MaxNodes
  /\ \E n \in 1..Len(nodes) :
       /\ Pending(n)
       /\ Len(nodes[n].items) > LeafSize
       /\ LET halves == SplitHalves(prims, nodes[n].items)
              k == Len(nodes)
          IN nodes' = [nodes EXCEPT ![n].state = "split", ![n].left = k + 1,
                                    ![n].right = k + 2]
                        \o <<NewNode(halves[1], n), NewNode(halves[2], n)>>
  /\ event' = [op |-> "splitNode", args |-> << >>, ret |-> 0]
  /\ UNCHANGED <<model_vars, prims, nbrs, inserted, sphere, matrix, opts, threads>>

\* step 5, on the way back: both children are built, the parent's bounding volume
\* is their merge
FinalizeNode ==
  /\ \A m \in 1..Len(nodes) : nodes[m].state # "pending"
  /\ \E n \in 1..Len(nodes) :
       /\ nodes[n].state = "split"
       /\ \A m \in (n + 1)..Len(nodes) : nodes[m].state # "split"
       /\ nodes' = [nodes EXCEPT ![n].state = "internal",
                                 ![n].bv = Merge(nodes[nodes[n].left].bv,
                                                 nodes[nodes[n].right].bv)]
  /\ event' = [op |-> "finalizeNode", args |-> << >>, ret |-> 0]
  /\ UNCHANGED <<model_vars, prims, nbrs, inserted, sphere, matrix, opts, threads>>

\* ---- bounded k-nearest collection
\* an insertion that, at capacity, evicts the best entry instead of the worst
SortedInsert_evictbest(arr, e) ==
  LET n == Len(arr.elems)
      pos == 1 + Cardinality({i \in 1..n : arr.elems[i].dist <= e.dist})
      grown == [i \in 1..(n + 1) |-> IF i < pos THEN arr.elems[i]
                                     ELSE IF i = pos THEN e ELSE arr.elems[i - 1]]
  IN IF n < arr.N THEN [arr EXCEPT !.elems = grown]
     ELSE [arr EXCEPT !.elems = SubSeq(grown, 2, n + 1)]

\* insert: the entry goes behind the entries that are not farther; at capacity
\* the worst entry leaves, and an entry no better than the worst is not taken
SortedInsert(arr, e) ==
  LET n == Len(arr.elems)
      pos == 1 + Cardinality({i \in 1..n : arr.elems[i].dist <= e.dist})
      grown == [i \in 1..(n + 1) |-> IF i < pos THEN arr.elems[i]
                                     ELSE IF i = pos THEN e ELSE arr.elems[i - 1]]
  IN IF n < arr.N THEN [arr EXCEPT !.elems = grown]
     ELSE IF e.dist < arr.elems[n].dist THEN [arr EXCEPT !.elems = SubSeq(grown, 1, arr.N)]
     ELSE arr

IsFull(arr) == Len(arr.elems) >= arr.N
Worst(arr) == arr.elems[Len(arr.elems)].dist

\* ---- kClosestPairs
\* the primitives of a leaf, each inserted when it lies within max_distance
RECURSIVE VisitLeaf(_, _, _, _, _, _)
VisitLeaf(ps, items, i, query, max_distance, arr) ==
  IF i > Len(items) THEN arr
  ELSE LET d == Distance(query, ps[items[i]])
           a == IF WithinBound(d, max_distance)
                THEN SortedInsert(arr, [dist |-> d, target |-> items[i] - 1])
                ELSE arr
       IN VisitLeaf(ps, items, i + 1, query, max_distance, a)

\* the traversal that prunes a subtree by the worst entry even while the
\* collection is not full
RECURSIVE VisitNode_eagerprune(_, _, _, _, _, _)
VisitNode_eagerprune(ns, ps, n, query, max_distance, arr) ==
  LET lb == Distance(query, ns[n].bv)
  IN IF IsNull(ns[n].bv) \/ ~WithinBound(lb, max_distance) THEN arr
     ELSE IF Len(arr.elems) > 0 /\ lb >= Worst(arr) THEN arr
     ELSE IF ns[n].state = "leaf"
     THEN VisitLeaf(ps, ns[n].items, 1, query, max_distance, arr)
     ELSE LET l == ns[n].left
              r == ns[n].right
              near == IF Distance(query, ns[l].bv) <= Distance(query, ns[r].bv) THEN l ELSE r
              far == IF near = l THEN r ELSE l
          IN VisitNode_eagerprune(ns, ps, far, query, max_distance,
                                  VisitNode_eagerprune(ns, ps, near, query, max_distance, arr))

\* depth-first with branch and bound: a subtree is left out when its bounding
\* volume lies beyond max_distance, or when the collection is full and the volume
\* is no nearer than its worst entry; the nearer child is visited first
RECURSIVE VisitNode(_, _, _, _, _, _)
VisitNode(ns, ps, n, query, max_distance, arr) ==
  LET lb == Distance(query, ns[n].bv)
  IN IF IsNull(ns[n].bv) \/ ~WithinBound(lb, max_distance) THEN arr
     ELSE IF IsFull(arr) /\ lb >= Worst(arr) THEN arr
     ELSE IF ns[n].state = "leaf"
     THEN VisitLeaf(ps, ns[n].items, 1, query, max_distance, arr)
     ELSE LET l == ns[n].left
              r == ns[n].right
              near == IF Distance(query, ns[l].bv) <= Distance(query, ns[r].bv) THEN l ELSE r
              far == IF near = l THEN r ELSE l
          IN VisitNode(ns, ps, far, query, max_distance,
                       VisitNode(ns, ps, near, query, max_distance, arr))

\* kClosestPairs(query, k_closest_pairs, dist_bound): <<the collection, the count>>
KClosestPairs(ns, ps, query, arr, max_distance) ==
  LET cleared == [arr EXCEPT !.elems = << >>]
      found == IF Len(ns) = 0 THEN cleared
               ELSE VisitNode(ns, ps, 1, query, max_distance, cleared)
  IN <<found, Len(found.elems)>>

\* ---- the calls on an index and on a collection
\* a caller's k-nearest query with a collection of capacity K
DoKClosestPairs(query, K, max_distance) ==
  /\ Built
  /\ \E r \in {KClosestPairs(nodes, prims, query, NewSortedArray(K), max_distance)} :
       /\ nbrs' = r[1]
       /\ event' = [op |-> "kClosestPairs", args |-> <<query, K, max_distance>>, ret |-> r[2]]
  /\ UNCHANGED <<model_vars, prims, nodes, inserted, sphere, matrix, opts, threads>>

\* VertexFeatureVisitor::operator() for one vertex: the neighbours within
\* 2 * scale, scale = max(0.2 * extent, 1e-8); when there are none, the
\* neighbours at any distance.  On integer distances d <= 2 * scale is
\* 5 * d <= 2 * extent.
VisitVertex(position) ==
  /\ Built
  /\ Len(prims) > 0
  /\ LET extent == nodes[1].bv.hi - nodes[1].bv.lo
         bound == (2 * extent) \div 5
     IN \E first \in {KClosestPairs(nodes, prims, position, NewSortedArray(MAX_NBRS), bound)} :
        \E r \in {IF first[2] <= 0
                  THEN KClosestPairs(nodes, prims, position, first[1], 0 - 1)
                  ELSE first} :
          /\ nbrs' = r[1]
          /\ event' = [op |-> "visitVertex", args |-> <<position, bound, first[2]>>,
                       ret |-> r[2]]
  /\ UNCHANGED <<model_vars, prims, nodes, inserted, sphere, matrix, opts, threads>>

\* an insertion into the collection
ArrayInsert(d) ==
  /\ Len(inserted) < MaxInserts
  /\ nbrs' = SortedInsert(nbrs, [dist |-> d, target |-> Len(inserted)])
  /\ inserted' = Append(inserted, d)
  /\ event' = [op |-> "insert", args |-> <<d>>, ret |-> 0]
  /\ UNCHANGED <<model_vars, prims, nodes, sphere, matrix, opts, threads>>

ArrayClear ==
  /\ nbrs' = [nbrs EXCEPT !.elems = << >>]
  /\ inserted' = << >>
  /\ event' = [op |-> "clear", args |-> << >>, ret |-> 0]
  /\ UNCHANGED <<model_vars, prims, nodes, sphere, matrix, opts, threads>>

\* ---- specifications
\* the Model beside these objects: constructed without a file, never called
ModelAside == Construct("", Missing)

\* an index over any list of primitives within the bounds, not yet built
InitIndex(S) ==
  /\ ModelAside
  /\ prims \in PrimLists(S)
  /\ nodes = RootOf(prims)
  /\ nbrs = NewSortedArray(MAX_NBRS)
  /\ inserted = << >>
  /\ sphere = NewSphere
  /\ matrix = NewMatrix
  /\ opts = NewOptions
  /\ threads = [t \in Threads |-> IdleThread]
  /\ event = NoEvent

NextBuild ==
  \/ EmitLeaf
  \/ SplitNode
  \/ FinalizeNode

\* the hierarchy build over every list of segments
SpecBuild == InitIndex(Segments) /\ [][NextBuild]_vars

\* the build as the blocking call it is: it keeps running until it returns
SpecBuildFair == SpecBuild /\ WF_vars(NextBuild)

NextKNN ==
  \/ NextBuild
  \/ \E q \in Coord, K \in 1..MaxCap, b \in Bounds : DoKClosestPairs(q, K, b)
  \/ \E q \in Coord : VisitVertex(q)

\* k-nearest queries on the built index of every point list
SpecKNN == InitIndex(Points) /\ [][NextKNN]_vars

InitArray ==
  /\ ModelAside
  /\ prims = << >>
  /\ nodes = << >>
  /\ nbrs \in {NewSortedArray(K) : K \in 1..MaxCap}
  /\ inserted = << >>
  /\ sphere = NewSphere
  /\ matrix = NewMatrix
  /\ opts = NewOptions
  /\ threads = [t \in Threads |-> IdleThread]
  /\ event = NoEvent

NextArray ==
  \/ \E d \in Coord : ArrayInsert(d)
  \/ ArrayClear

\* any sequence of insertions into a collection of any capacity
SpecArray == InitArray /\ [][NextArray]_vars

\* ------------------------------------------------------------ properties
QueryOps ==
  {"rayIntersects", "rayIntersectionTime", "rayIntersection", "closestPoint", "pick",
   "togglePickMesh"}

\* the last call walked the given index
Used(tree) == \E i \in 1..Len(last.trav) : last.trav[i].tree = tree

\* the triangles of the current geometry, in face order
CurrentFaces ==
  IF mesh_group.isnull THEN << >>
  ELSE [f \in 1..Len(mesh_group.faces) |-> TriangleOf(mesh_group, f)]

FacesWithin(q, bound) ==
  {f \in 1..Len(CurrentFaces) : WithinBound(Distance(q, CurrentFaces[f]), bound)}

\* C1: closestPoint with accelerate_with_vertices = true answers as an exhaustive
\* scan over all faces does: -1 exactly when no face lies within the caller's
\* bound, otherwise a face at the minimum distance.
C1_AcceleratedMatchesExhaustive ==
  (last.op = "closestPoint" /\ last.accel /\ last.bnd >= 0) =>
    LET S == FacesWithin(last.q, last.bnd)
    IN IF S = {} THEN last.ret.index = 0 - 1
       ELSE /\ last.ret.index + 1 \in S
            /\ \A f \in S : Distance(last.q, CurrentFaces[last.ret.index + 1])
                              <= Distance(last.q, CurrentFaces[f])

\* C2: a query answers from an index built from the current mesh only: the face
\* index it walked holds exactly the current faces, and an element it returns is
\* a face of the current mesh group.
C2_QueryReflectsCurrentMesh ==
  (last.op \in QueryOps /\ Used("kd")) =>
    /\ kdtree.elems = CurrentFaces
    /\ last.ret.index >= 0 =>
         /\ ~mesh_group.isnull
         /\ last.ret.mesh = mesh_group.id
         /\ last.ret.index < Len(mesh_group.faces)

\* a query rebuilt the face index of b.off and returned one of its faces while the
\* vertex index still holds the vertices of a.obj from the build before the load
C2_Witness ==
  /\ last.op \in QueryOps
  /\ last.kd_builds = 1
  /\ last.ret.index >= 0
  /\ last.ret.mesh = "b.off"
  /\ ~valid_vertex_kdtree
  /\ \E i \in 1..Len(vertex_kdtree.elems) : vertex_kdtree.elems[i].mesh = "a.obj"

\* C3: every query entry point walks an index only while its validity flag is
\* true, and an index that was invalid when the call began was rebuilt in the call.
C3_NoTraversalWhileInvalid ==
  last.op \in QueryOps =>
    /\ \A i \in 1..Len(last.trav) : last.trav[i].valid
    /\ (Used("kd") /\ ~last.pre_kd) => last.kd_builds >= 1
    /\ (Used("vkd") /\ ~last.pre_vkd) => last.vkd_builds >= 1

\* closestPoint found both indices invalid, rebuilt and walked both
C3_Witness ==
  /\ last.op = "closestPoint"
  /\ ~last.pre_kd /\ ~last.pre_vkd
  /\ Used("kd") /\ Used("vkd")
  /\ valid_kdtree /\ valid_vertex_kdtree

\* the same query on a model whose transform was never set
Untransformed ==
  InvalidateAll([Self EXCEPT !.has_transform = FALSE, !.trans = 0,
                             !.kdtree = NewKDTree, !.vertex_kdtree = NewKDTree])

ReferenceResult ==
  IF last.op = "closestPoint"
  THEN ClosestPointM(Untransformed, last.q, last.bnd, last.accel)[2]
  ELSE IF last.op = "rayIntersection"
  THEN RayIntersectionM(Untransformed, last.q, last.dir, last.bnd)[2]
  ELSE IF last.op = "rayIntersectionTime"
  THEN RayIntersectionTimeM(Untransformed, last.q, last.dir, last.bnd)[2]
  ELSE RayIntersectsM(Untransformed, last.q, last.dir, last.bnd)[2]

\* C4: once the transform has been cleared, a query returns what it returns on a
\* model whose transform was never set, whatever was interleaved.
C4_TransformRoundTrip ==
  (/\ last.op \in {"closestPoint", "rayIntersection", "rayIntersectionTime", "rayIntersects"}
   /\ ~has_transform
   /\ status = "ok")
    => last.ret = ReferenceResult

\* C5: a query on a model without mesh primitives faults nowhere and returns the
\* sentinel: no index, rayIntersects false, negative time.
C5_EmptyIndexQuery ==
  (last.op \in QueryOps /\ (mesh_group.isnull \/ GroupIsEmpty(mesh_group))) =>
    /\ status = "ok"
    /\ last.ret.index = 0 - 1
    /\ last.op = "rayIntersects" => last.ret.val = 0
    /\ last.op \in {"rayIntersectionTime", "pick"} => last.ret.val < 0

\* the Model was constructed and its initial load found an empty or non-existent path
FreshWithoutGeometry == last.op = "Model" /\ (last.path_ = "" \/ last.file = "missing")

C7_OneRebuildPerInvalidation ==
  /\ last.op \in QueryOps =>
       /\ last.kd_builds = (IF Used("kd") /\ ~last.pre_kd THEN 1 ELSE 0)
       /\ last.vkd_builds = (IF Used("vkd") /\ ~last.pre_vkd THEN 1 ELSE 0)
       /\ Used("kd") => valid_kdtree
       /\ Used("vkd") => valid_vertex_kdtree
  /\ last.op \notin QueryOps => (last.kd_builds = 0 /\ last.vkd_builds = 0)

C7_Witness ==
  /\ last.op = "rayIntersection"
  /\ ~last.pre_kd
  /\ last.kd_builds = 1
  /\ Len(kdtree.elems) > 0

\* C8: a successful load, clear or clearMesh that changes the vertex or face set
\* of the mesh leaves both indices invalid when it returns.
C8_GeometryChangeInvalidates ==
  [][(/\ last'.op \in {"load", "clear", "clearMesh"}
      /\ \/ mesh_group'.verts # mesh_group.verts
         \/ mesh_group'.faces # mesh_group.faces)
       => (~valid_kdtree' /\ ~valid_vertex_kdtree')]_vars

\* C9: setTransform and clearTransform change the stored transform and nothing
\* else: no flag, no indexed primitive, no rebuild, no geometry.
C9_TransformFrame ==
  [][last'.op \in {"setTransform", "clearTransform"} =>
       /\ UNCHANGED <<valid_kdtree, valid_vertex_kdtree, mesh_group, point_cloud, path,
                      valid_pick, picked_sample, picked_segment, segments, status>>
       /\ kdtree'.elems = kdtree.elems
       /\ vertex_kdtree'.elems = vertex_kdtree.elems
       /\ last'.kd_builds = 0 /\ last'.vkd_builds = 0]_vars

\* setTransform reached a valid, non-empty face index and stored the transform in it
C9_Witness ==
  /\ last.op = "setTransform"
  /\ valid_kdtree
  /\ Len(kdtree.elems) > 0
  /\ kdtree.has_trans

\* the faces the last ray hits within its time limit, in the index's object space
FacesHit ==
  {f \in 1..Len(CurrentFaces) :
     LET h == RayTime(ToObject(kdtree, last.q), last.dir, CurrentFaces[f])
     IN h >= 0 /\ WithinBound(h, last.bnd)}

HitTime(f) == RayTime(ToObject(kdtree, last.q), last.dir, CurrentFaces[f])

KNNWithin ==
  {i \in 1..Len(prims) : WithinBound(Distance(event.args[1], prims[i]), event.args[3])}

KNNCount == Min2(event.args[2], Cardinality(KNNWithin))

\* the collection holds primitives within the bound, each once and with its true
\* distance, and no primitive left out is nearer than one it holds
KNNIsTopK ==
  LET e == nbrs.elems
  IN /\ \A i \in 1..Len(e) :
          /\ e[i].target + 1 \in KNNWithin
          /\ e[i].dist = Distance(event.args[1], prims[e[i].target + 1])
     /\ \A i, j \in 1..Len(e) : i # j => e[i].target # e[j].target
     /\ \A p \in KNNWithin :
          (\A i \in 1..Len(e) : e[i].target + 1 # p) =>
            \A i \in 1..Len(e) : e[i].dist <= Distance(event.args[1], prims[p])

\* C11 as stated: kClosestPairs returns min(K, number of primitives within
\* maxDistance) entries, strictly ascending by distance, the brute-force top K.
C11_KNearestStrict ==
  event.op = "kClosestPairs" =>
    /\ event.ret = KNNCount
    /\ Len(nbrs.elems) = KNNCount
    /\ \A i \in 1..(Len(nbrs.elems) - 1) : nbrs.elems[i].dist < nbrs.elems[i + 1].dist
    /\ KNNIsTopK

\* C11 amended: kClosestPairs returns min(K, number of primitives within
\* maxDistance) entries in ascending order of distance, equidistant primitives
\* side by side, and they are a brute-force top K: nothing left out is nearer.
C11_KNearest ==
  event.op = "kClosestPairs" =>
    /\ event.ret = KNNCount
    /\ Len(nbrs.elems) = KNNCount
    /\ \A i \in 1..(Len(nbrs.elems) - 1) : nbrs.elems[i].dist <= nbrs.elems[i + 1].dist
    /\ KNNIsTopK

\* a query of capacity 2 on three points within the bound returned two
\* equidistant points and left the third out
C11_Witness ==
  /\ event.op = "kClosestPairs"
  /\ event.args[2] = 2
  /\ event.ret = 2
  /\ Cardinality(KNNWithin) = 3
  /\ nbrs.elems[1].dist = nbrs.elems[2].dist
  /\ nbrs.elems[1].dist > 0

\* ---- bounded collection
\* a sequence of numbers in ascending order
Ascending(seq) ==
  LET n == Len(seq)
      rank(i) == Cardinality({j \in 1..n : seq[j] < seq[i] \/ (seq[j] = seq[i] /\ j < i)})
  IN [k \in 1..n |-> seq[CHOOSE i \in 1..n : rank(i) = k - 1]]

\* C12: after any sequence of insertions the collection holds at most N entries,
\* in ascending order of distance, and they are the N smallest distances
\* inserted so far.
C12_BoundedSorted ==
  LET e == nbrs.elems
      k == Min2(nbrs.N, Len(inserted))
  IN /\ Len(e) <= nbrs.N
     /\ \A i \in 1..(Len(e) - 1) : e[i].dist <= e[i + 1].dist
     /\ [i \in 1..Len(e) |-> e[i].dist] = SubSeq(Ascending(inserted), 1, k)
     /\ \A i \in 1..Len(e) : inserted[e[i].target + 1] = e[i].dist

\* a full collection of capacity 2 took a later, better entry and dropped its worst
C12_Witness ==
  /\ nbrs.N = 2
  /\ Len(inserted) = 4
  /\ Len(nbrs.elems) = 2
  /\ nbrs.elems[1].target = 3
  /\ nbrs.elems[2].target = 0
  /\ nbrs.elems[2].dist < inserted[2]

\* C13: a query repeated at once with the same arguments on an unmodified model
\* returns what it returned the first time: the same primitive, value and point,
\* also when the first call is the one that rebuilt the index.
C13_RepeatedQuery == last.twice => last.first = last.ret

\* rayIntersection rebuilt the index in its first call and returned, both times,
\* one of two faces the ray hits at the same, earliest time
C13_Witness ==
  /\ last.twice
  /\ last.op = "rayIntersection"
  /\ last.first_builds = 1
  /\ last.ret.index >= 0
  /\ \E f, g \in 1..Len(CurrentFaces) :
       /\ f # g
       /\ RayTime(last.q, last.dir, CurrentFaces[f]) = last.ret.val
       /\ RayTime(last.q, last.dir, CurrentFaces[g]) = last.ret.val

\* what the query of a thread returns when it runs alone on the Model
Alone(th) ==
  IF th.op = "closestPoint" THEN ClosestPointM(Self, th.q, th.bnd, th.accel)[2]
  ELSE IF th.op = "rayIntersection" THEN RayIntersectionM(Self, th.q, th.dir, th.bnd)[2]
  ELSE IF th.op = "rayIntersectionTime"
  THEN RayIntersectionTimeM(Self, th.q, th.dir, th.bnd)[2]
  ELSE RayIntersectsM(Self, th.q, th.dir, th.bnd)[2]

\* C14: read-only queries that run concurrently on a Model whose indices are
\* both valid write nothing of the Model, neither a flag nor an index, and each
\* returns what it returns when run alone.
C14_ConcurrentReads ==
  \A t \in Threads :
    /\ ~threads[t].wrote
    /\ threads[t].pc # "idle" => (valid_kdtree /\ valid_vertex_kdtree)
    /\ threads[t].pc = "done" => threads[t].ret = Alone(threads[t])

\* a closestPoint that tightened its bound on the vertex index has its result
\* while a rayIntersection of the other thread is between its update and its walk
C14_Witness ==
  /\ threads[1].pc = "done"
  /\ threads[1].op = "closestPoint"
  /\ threads[1].accel
  /\ threads[1].ret.index >= 0
  /\ threads[2].pc = "walkKDTree"
  /\ threads[2].op = "rayIntersection"

ItemSet(n) == {nodes[n].items[i] : i \in 1..Len(nodes[n].items)}

\* C15: in the hierarchy of a non-empty primitive set the bounding volume of
\* every built node contains the volume of every primitive of its subtree, and
\* the volume of an internal node is the merge of the volumes of its two children,
\* whose primitives are together the primitives of the node.
C15_Containment ==
  Len(prims) > 0 =>
    \A n \in 1..Len(nodes) :
      /\ IsBuilt(nodes[n]) =>
           \A p \in ItemSet(n) : BoxContains(nodes[n].bv, BoxOf(prims[p]))
      /\ nodes[n].state = "internal" =>
           LET l == nodes[nodes[n].left]
               r == nodes[nodes[n].right]
           IN /\ ~IsNull(l.bv) /\ ~IsNull(r.bv)
              /\ nodes[n].bv = [lo |-> Min2(l.bv.lo, r.bv.lo), hi |-> Max2(l.bv.hi, r.bv.hi)]
              /\ ItemSet(n) = ItemSet(nodes[n].left) \cup ItemSet(nodes[n].right)

\* a finished hierarchy over three primitives whose root is strictly larger than
\* each of its children
C15_Witness ==
  /\ Len(prims) = MaxPrims
  /\ Built
  /\ nodes[1].state = "internal"
  /\ nodes[1].bv # nodes[nodes[1].left].bv
  /\ nodes[1].bv # nodes[nodes[1].right].bv
  /\ \E n \in 2..Len(nodes) : nodes[n].state = "internal"

Leaves == {n \in 1..Len(nodes) : nodes[n].state = "leaf"}

\* the build is over: every node is built, no leaf exceeds the threshold and
\* every primitive lies in exactly one leaf
Terminated ==
  /\ Built
  /\ \A n \in Leaves : Len(nodes[n].items) <= LeafSize
  /\ \A p \in 1..Len(prims) :
       Cardinality({n \in Leaves : \E i \in 1..Len(nodes[n].items) : nodes[n].items[i] = p}) = 1
  /\ \A n \in Leaves : Cardinality(ItemSet(n)) = Len(nodes[n].items)

\* each child holds at least one primitive and fewer than its parent
ChildrenSmaller ==
  \A n \in 1..Len(nodes) :
    nodes[n].parent # 0 =>
      /\ Len(nodes[n].items) >= 1
      /\ Len(nodes[n].items) < Len(nodes[nodes[n].parent].items)

\* C16: the build terminates for every finite primitive set, identical
\* primitives included: every split gives each child fewer primitives than the
\* parent, and in the end each leaf is within the threshold and each primitive is
\* in exactly one leaf.
C16_BuildTerminates == [](ChildrenSmaller) /\ <>[](Terminated)

\* the build of three identical primitives is over, split by index order
C16_Witness ==
  /\ Len(prims) = MaxPrims
  /\ \A i, j \in 1..Len(prims) : prims[i] = prims[j]
  /\ Terminated
  /\ Cardinality(Leaves) = MaxPrims

\* ------------------------------------------------------------ BestFitSphere3
\* The point set, the cached ball and the flag that says the ball is up to date.
MaxPts == 2

ObjectFrame == UNCHANGED <<model_vars, prims, nodes, nbrs, inserted, threads>>

\* addPoint: the point joins the set and the ball is out of date
AddPointS(s, p) == [s EXCEPT !.points = Append(@, p), !.updated = FALSE]

\* clear: all data removed, the sphere set to null lazily
ClearS(s) == [s EXCEPT !.points = << >>, !.updated = FALSE]

\* a release that also marks the sphere for recomputation
ReleaseMemoryWithoutUpdateS_mark(s) == [s EXCEPT !.points = << >>, !.updated = FALSE]

\* releaseMemoryWithoutUpdate: the data removed, the sphere not marked
ReleaseMemoryWithoutUpdateS(s) == [s EXCEPT !.points = << >>]

\* update: recomputes the ball from the points when it is out of date
UpdateS(s) ==
  IF s.updated THEN s
  ELSE [s EXCEPT !.updated = TRUE,
                 !.ball = BoxOfItems([i \in 1..Len(s.points) |-> [lo |-> s.points[i],
                                                                 hi |-> s.points[i]]],
                                     [i \in 1..Len(s.points) |-> i], 1)]

AddPoint(p) ==
  /\ Len(sphere.points) < MaxPts
  /\ sphere' = AddPointS(sphere, p)
  /\ event' = [op |-> "addPoint", args |-> <<p>>, ret |-> 0]
  /\ UNCHANGED <<matrix, opts>>
  /\ ObjectFrame

ClearSphere ==
  /\ sphere' = ClearS(sphere)
  /\ event' = [op |-> "clear", args |-> << >>, ret |-> 0]
  /\ UNCHANGED <<matrix, opts>>
  /\ ObjectFrame

ReleaseMemoryWithoutUpdate ==
  /\ sphere' = ReleaseMemoryWithoutUpdateS(sphere)
  /\ event' = [op |-> "releaseMemoryWithoutUpdate", args |-> << >>, ret |-> 0]
  /\ UNCHANGED <<matrix, opts>>
  /\ ObjectFrame

\* getRadius, getDiameter, getCenter, getBall: update, then read the ball;
\* ret tells whether the ball was recomputed
GetBall ==
  /\ sphere' = UpdateS(sphere)
  /\ event' = [op |-> "getBall", args |-> << >>, ret |-> IF sphere.updated THEN 0 ELSE 1]
  /\ UNCHANGED <<matrix, opts>>
  /\ ObjectFrame

NextSphere ==
  \/ \E p \in RepeatPoints : AddPoint(p)
  \/ ClearSphere
  \/ ReleaseMemoryWithoutUpdate
  \/ GetBall
  \/ DoInvalidateAll
  \/ DoInvalidateKDTree
  \/ DoInvalidateVertexKDTree
  \/ \E q \in LifePoints : ClosestPoint(q, 0 - 1, TRUE)

\* a best-fit sphere and the indices of a Model under release, invalidation and use
SpecSphere == InitMesh /\ [][NextSphere]_vars

\* the Model apart from its two validity flags and the record of the call
ModelStorage ==
  <<mesh_group, point_cloud, path, has_transform, trans, kdtree, vertex_kdtree,
    valid_pick, picked_sample, picked_segment, segments, samples, selected_sample,
    selected_segment, segment_depth_promotion, files, status>>

\* C17: releaseMemoryWithoutUpdate leaves the updated flag and the ball as they
\* are, so it brings about no recomputation; an invalidate call changes only a
\* validity flag and leaves the index storage as it is; a step that both
\* discards the data and marks the object for recomputation is a clear().
C17_ReleaseKeepsValidity ==
  [][/\ ReleaseMemoryWithoutUpdate =>
          /\ sphere'.updated = sphere.updated
          /\ sphere'.ball = sphere.ball
          /\ UpdateS(sphere') = sphere' <=> UpdateS(sphere) = sphere
     /\ (DoInvalidateAll \/ DoInvalidateKDTree \/ DoInvalidateVertexKDTree) =>
          UNCHANGED ModelStorage
     /\ ClearSphere => (sphere'.points = << >> /\ ~sphere'.updated)
     /\ (sphere.points # << >> /\ sphere'.points = << >>
           /\ sphere.updated /\ ~sphere'.updated) => event'.op = "clear"
    ]_vars

\* the points were released while the ball was up to date, and the ball is still
\* served; the face index was invalidated and still holds its elements
C17_Witness ==
  /\ event.op = "releaseMemoryWithoutUpdate"
  /\ sphere.updated
  /\ ~IsNull(sphere.ball)
  /\ sphere.points = << >>
  /\ last.op = "invalidateKDTree"
  /\ ~valid_kdtree
  /\ Len(kdtree.elems) > 0

\* ------------------------------------------------------------ VariantMatrix
\* The type tag and the shapes of the dense and of the sparse matrix it holds.
MaxDim == 2

Dims == 0..MaxDim
Types == {"NONE", "DENSE", "SPARSE"}

\* the functions that begin with THEA_VARMAT_CHECK_DENSE
DenseOnly ==
  {"getDense", "at", "mutableAt", "data", "fill", "getRow", "setRow", "getColumn",
   "setColumn"}

\* the functions that begin with THEA_VARMAT_CHECK_SPARSE
SparseOnly ==
  {"getSparse", "numStoredElements", "innerSize", "outerSize", "isFullyCompressed",
   "getInnerIndexType", "getOuterIndexType", "getNonZeroCountType", "getInnerIndices",
   "getOuterIndices", "getNonZeroCounts", "getValues"}

IsValid(mat) == mat.type # "NONE"

\* a dense check that passes for any valid matrix
IsDense_valid(mat) == mat.type # "NONE"

IsDense(mat) == mat.type = "DENSE"
IsSparse(mat) == mat.type = "SPARSE"

RowsM(mat) == IF IsDense(mat) THEN mat.dense.rows ELSE IF IsSparse(mat) THEN mat.sparse.rows ELSE 0
ColsM(mat) == IF IsDense(mat) THEN mat.dense.cols ELSE IF IsSparse(mat) THEN mat.sparse.cols ELSE 0

ClearMatrixM(mat) ==
  [type |-> "NONE", dense |-> [rows |-> 0, cols |-> 0], sparse |-> [rows |-> 0, cols |-> 0]]

\* resize: <<the matrix afterwards, the value returned>>
ResizeM(mat, nrows, ncols) ==
  IF IsDense(mat) THEN <<[mat EXCEPT !.dense = [rows |-> nrows, cols |-> ncols]], 1>>
  ELSE IF IsSparse(mat) THEN <<[mat EXCEPT !.sparse = [rows |-> nrows, cols |-> ncols]], 1>>
  ELSE <<mat, 0>>

\* read with the automatic codec: the stream says which of the two it holds
ReadM(mat, which, nrows, ncols) ==
  IF which = 0
  THEN [mat EXCEPT !.dense = [rows |-> nrows, cols |-> ncols], !.type = "DENSE"]
  ELSE [mat EXCEPT !.sparse = [rows |-> nrows, cols |-> ncols], !.type = "SPARSE"]

MatrixFrame == UNCHANGED <<model_vars, prims, nodes, nbrs, inserted, sphere, opts, threads>>

SetType(type_) ==
  /\ matrix' = [matrix EXCEPT !.type = type_]
  /\ event' = [op |-> "setType", args |-> <<type_>>, ret |-> 0]
  /\ MatrixFrame

ClearMatrix ==
  /\ matrix' = ClearMatrixM(matrix)
  /\ event' = [op |-> "clear", args |-> << >>, ret |-> 0]
  /\ MatrixFrame

Read(which, nrows, ncols) ==
  /\ matrix' = ReadM(matrix, which, nrows, ncols)
  /\ event' = [op |-> "read", args |-> <<which, nrows, ncols>>, ret |-> 0]
  /\ MatrixFrame

Resize(nrows, ncols) ==
  /\ \E r \in {ResizeM(matrix, nrows, ncols)} :
       /\ matrix' = r[1]
       /\ event' = [op |-> "resize", args |-> <<nrows, ncols>>, ret |-> r[2]]
  /\ MatrixFrame

Rows ==
  /\ event' = [op |-> "rows", args |-> << >>, ret |-> RowsM(matrix)]
  /\ UNCHANGED matrix
  /\ MatrixFrame

Cols ==
  /\ event' = [op |-> "cols", args |-> << >>, ret |-> ColsM(matrix)]
  /\ UNCHANGED matrix
  /\ MatrixFrame

\* a dense-only function: the assertion, then the call on the dense matrix
DenseCall(fn_name) ==
  /\ event' = [op |-> fn_name, args |-> << >>,
               ret |-> IF IsDense(matrix) THEN "ok" ELSE "assert"]
  /\ UNCHANGED matrix
  /\ MatrixFrame

\* a sparse-only function: the assertion, then the call on the sparse matrix
SparseCall(fn_name) ==
  /\ event' = [op |-> fn_name, args |-> << >>,
               ret |-> IF IsSparse(matrix) THEN "ok" ELSE "assert"]
  /\ UNCHANGED matrix
  /\ MatrixFrame

NextMatrix ==
  \/ \E t \in Types : SetType(t)
  \/ ClearMatrix
  \/ \E which \in {0, 1}, r \in Dims, c \in Dims : Read(which, r, c)
  \/ \E r \in Dims, c \in Dims : Resize(r, c)
  \/ Rows
  \/ Cols
  \/ \E f \in DenseOnly : DenseCall(f)
  \/ \E f \in SparseOnly : SparseCall(f)

\* a VariantMatrix from its default construction on
InitMatrix ==
  /\ ModelAside
  /\ prims = << >>
  /\ nodes = << >>
  /\ nbrs = NewSortedArray(MAX_NBRS)
  /\ inserted = << >>
  /\ sphere = NewSphere
  /\ matrix = NewMatrix
  /\ opts = NewOptions
  /\ threads = [t \in Threads |-> IdleThread]
  /\ event = NoEvent

SpecMatrix == InitMatrix /\ [][NextMatrix]_vars

\* C18: a dense-only function fails its assertion exactly when the type is not
\* DENSE, a sparse-only function exactly when the type is not SPARSE; with type
\* NONE, which default construction and clear() leave, all of them fail and
\* rows() and cols() return 0.
C18_TypeChecks ==
  /\ matrix.type = "NONE"
  /\ [][/\ \A f \in DenseOnly :
             DenseCall(f) => (event'.ret = "assert" <=> matrix.type # "DENSE")
        /\ \A f \in SparseOnly :
             SparseCall(f) => (event'.ret = "assert" <=> matrix.type # "SPARSE")
        /\ ClearMatrix => matrix'.type = "NONE"
        /\ matrix.type = "NONE" =>
             /\ \A f \in DenseOnly : DenseCall(f) => event'.ret = "assert"
             /\ \A f \in SparseOnly : SparseCall(f) => event'.ret = "assert"
             /\ Rows => event'.ret = 0
             /\ Cols => event'.ret = 0
       ]_vars

\* a dense-only function was refused on a sparse matrix that has rows and columns
C18_Witness ==
  /\ event.op = "at"
  /\ event.ret = "assert"
  /\ matrix.type = "SPARSE"
  /\ matrix.sparse.rows > 0
  /\ matrix.sparse.cols > 0
  /\ matrix.dense.rows > 0

\* ------------------------------------------------------------ App::parseOptions
\* The options with a value, in the order of their description; an option that
\* a source does not give is Absent there.
ValueOpts == {"plugin-dir", "resource-dir", "working-dir", "model", "bg-color"}
Absent == "<absent>"

\* what the command line and what the configuration file may give an option
CmdValues == {Absent, "", "a"}
ConfValues == {Absent, "b"}

\* default_value(...) of the description; model and bg-color have none
HasDefault(o) == o \in {"plugin-dir", "resource-dir", "working-dir"}
DefaultValue(o) ==
  IF o = "plugin-dir" THEN "lib" ELSE IF o = "resource-dir" THEN "Resources" ELSE "."

\* the member of opts an option is written to
Field(o) ==
  IF o = "plugin-dir" THEN "plugin_dir"
  ELSE IF o = "resource-dir" THEN "resource_dir"
  ELSE IF o = "working-dir" THEN "working_dir"
  ELSE IF o = "model" THEN "model"
  ELSE "bg_color"

\* QDir(path).canonicalPath(): the absolute path of the directory
CanonicalPath(v) == "/abs/" \o v

\* ColorRGB::fromARGB of the hexadecimal number read from the string
FromARGB(v) == "argb:" \o v

\* the value opts receives for a non-empty string of an option
Converted(o, v) ==
  IF o = "model" THEN v
  ELSE IF o = "bg-color" THEN FromARGB(v)
  ELSE CanonicalPath(v)

\* a variables_map without entries
EmptyVM == [o \in ValueOpts |-> [count |-> 0, value |-> "", defaulted |-> FALSE]]

\* po::store: a parsed value is stored unless an earlier store gave the option
\* a value of its own; then the defaults fill the options still without entry
StoreParsed(vm, parsed) ==
  [o \in ValueOpts |->
     IF vm[o].count > 0 /\ ~vm[o].defaulted THEN vm[o]
     ELSE IF parsed[o] # Absent THEN [count |-> 1, value |-> parsed[o], defaulted |-> FALSE]
     ELSE IF vm[o].count > 0 THEN vm[o]
     ELSE IF HasDefault(o) THEN [count |-> 1, value |-> DefaultValue(o), defaulted |-> TRUE]
     ELSE vm[o]]

\* the assignments to opts under if (!quit)
AssignOptions(o0, used) ==
  LET paths == [o0 EXCEPT
                  !.plugin_dir = IF used["plugin-dir"] # ""
                                 THEN CanonicalPath(used["plugin-dir"]) ELSE @,
                  !.resource_dir = IF used["resource-dir"] # ""
                                   THEN CanonicalPath(used["resource-dir"]) ELSE @,
                  !.working_dir = IF used["working-dir"] # ""
                                  THEN CanonicalPath(used["working-dir"]) ELSE @,
                  !.model = IF used["model"] # "" THEN used["model"] ELSE @]
  IN IF used["bg-color"] # ""
     THEN [paths EXCEPT !.bg_plain = TRUE, !.bg_color = FromARGB(used["bg-color"])]
     ELSE [paths EXCEPT !.bg_plain = FALSE, !.bg_color = "black"]

\* parseOptions that stores the configuration file before the command line
ParseOptionsM_conffirst(o0, in) ==
  LET vm1 == IF in.conf_exists THEN StoreParsed(EmptyVM, in.conf) ELSE EmptyVM
      vm2 == StoreParsed(vm1, in.cmd)
      used == [o \in ValueOpts |-> vm2[o].value]
      quit == in.version \/ in.help
  IN [opts |-> IF quit THEN o0 ELSE AssignOptions(o0, used), result |-> ~quit, used |-> used]

\* parseOptions: the command line is stored first, then the configuration file
\* if it exists; notify writes the strings; opts is assigned unless quitting
ParseOptionsM(o0, in) ==
  LET vm1 == StoreParsed(EmptyVM, in.cmd)
      vm2 == IF in.conf_exists THEN StoreParsed(vm1, in.conf) ELSE vm1
      used == [o \in ValueOpts |-> vm2[o].value]
      quit == in.version \/ in.help
  IN [opts |-> IF quit THEN o0 ELSE AssignOptions(o0, used), result |-> ~quit, used |-> used]

\* the command lines and configuration files the program may be started with
Invocations ==
  {in \in [cmd : [ValueOpts -> CmdValues], help : BOOLEAN, version : BOOLEAN,
           conf_exists : BOOLEAN, conf : [ValueOpts -> ConfValues]] :
     ~in.conf_exists => \A o \in ValueOpts : in.conf[o] = Absent}

\* the program is started: argv and the configuration file are given, opts is as
\* Options() left it, bg_plain without an initialiser
InitApp ==
  /\ ModelAside
  /\ prims = << >>
  /\ nodes = << >>
  /\ nbrs = NewSortedArray(MAX_NBRS)
  /\ inserted = << >>
  /\ sphere = NewSphere
  /\ matrix = NewMatrix
  /\ \E b \in BOOLEAN : opts = [NewOptions EXCEPT !.bg_plain = b]
  /\ threads = [t \in Threads |-> IdleThread]
  /\ \E in \in Invocations : event = [op |-> "main", args |-> <<in>>, ret |-> 0]

ParseOptions ==
  /\ event.op = "main"
  /\ \E r \in {ParseOptionsM(opts, event.args[1])} :
       /\ opts' = r.opts
       /\ event' = [op |-> "parseOptions", args |-> <<event.args[1], opts>>,
                    ret |-> [result |-> r.result, used |-> r.used]]
  /\ UNCHANGED <<model_vars, prims, nodes, nbrs, inserted, sphere, matrix, threads>>

NextApp == ParseOptions

\* one start of the application
SpecApp == InitApp /\ [][NextApp]_vars

\* C19: an option given on the command line takes the command-line value, also
\* when the configuration file gives it too; the configuration file's value is
\* used only for an option absent from the command line; when --help or
\* --version asks to quit, parseOptions returns false and opts is as before.
C19_CommandLineWins ==
  event.op = "parseOptions" =>
    LET in == event.args[1]
        before == event.args[2]
        used == event.ret.used
    IN /\ \A o \in ValueOpts :
            /\ in.cmd[o] # Absent => used[o] = in.cmd[o]
            /\ (in.cmd[o] = Absent /\ in.conf[o] # Absent) => used[o] = in.conf[o]
            /\ (in.conf[o] # Absent /\ used[o] = in.conf[o]) => in.cmd[o] = Absent
            /\ (event.ret.result /\ used[o] # "") => opts[Field(o)] = Converted(o, used[o])
       /\ (in.help \/ in.version) => (~event.ret.result /\ opts = before)
       /\ event.ret.result = ~(in.help \/ in.version)

\* the command line and the configuration file both name the model and the
\* background colour, and opts holds the command line's
C19_Witness ==
  /\ event.op = "parseOptions"
  /\ event.args[1].cmd["model"] = "a"
  /\ event.args[1].conf["model"] = "b"
  /\ event.args[1].cmd["bg-color"] = "a"
  /\ event.args[1].conf["bg-color"] = "b"
  /\ event.args[1].cmd["plugin-dir"] = Absent
  /\ event.args[1].conf["plugin-dir"] = "b"
  /\ opts.model = "a"
  /\ opts.bg_color = FromARGB("a")
  /\ opts.plugin_dir = CanonicalPath("b")

\* the distances from q to the vertices of the current mesh that lie within bound
VertexDistances(q, bound) ==
  IF mesh_group.isnull THEN {}
  ELSE {d \in {IF mesh_group.verts[v] > q THEN mesh_group.verts[v] - q
               ELSE q - mesh_group.verts[v] : v \in 1..Len(mesh_group.verts)} :
          bound < 0 \/ d <= bound}

\* the walks of the face index in the last call
FaceWalks == {i \in 1..Len(last.trav) : last.trav[i].tree = "kd"}

\* C20: closestPoint with accelerate_with_vertices = true passes the face index
\* the caller's bound when the vertex query found no vertex, and otherwise the
\* distance to the nearest vertex; for a caller's bound that is not negative the
\* bound passed is not larger; the face index is asked once, also when it finds
\* nothing.
C20_TightenedBound ==
  (last.op = "closestPoint" /\ last.accel /\ ~IsEmpty(Self)) =>
    LET found == VertexDistances(last.q, last.bnd)
    IN /\ Len(last.passed) = 1
       /\ Cardinality(FaceWalks) = 1
       /\ found = {} => last.passed[1] = last.bnd
       /\ found # {} => (last.passed[1] \in found /\ \A d \in found : last.passed[1] <= d)
       /\ last.bnd >= 0 => last.passed[1] <= last.bnd

\* a vertex was found nearer than the caller's bound, the face index was asked
\* with that distance and found nothing within it
C20_Witness ==
  /\ last.op = "closestPoint"
  /\ last.accel
  /\ last.bnd > 0
  /\ Len(last.passed) = 1
  /\ last.passed[1] < last.bnd
  /\ last.ret.index < 0
  /\ FacesWithin(last.q, last.bnd) # {}

\* the ray (o, d) meets a face of the current geometry
ExactHit(o, d) == \E f \in 1..Len(CurrentFaces) : RayTime(o, d, CurrentFaces[f]) >= 0

\* C21: pick asks for the closest pair only when the exact ray query reports no
\* hit; it returns a time that is not negative exactly when it selected a face in
\* this call, and only then writes picked_sample and valid_pick.
C21_PickFallback ==
  [][\A o \in LifePoints, d \in Dirs :
       Pick(o, d) =>
         LET walks == Cardinality({i \in 1..Len(last'.trav) : last'.trav[i].tree = "kd"})
         IN /\ walks = (IF ExactHit(o, d) THEN 1 ELSE 2)
            /\ last'.ret.val >= 0 <=> last'.ret.index >= 0
            /\ last'.ret.index >= 0 =>
                 /\ valid_pick'
                 /\ picked_sample'.face_index = last'.ret.index
                 /\ picked_sample'.mesh = mesh_group.id
            /\ last'.ret.index < 0 => UNCHANGED <<valid_pick, picked_sample>>
    ]_vars

\* the ray missed every face and the pick selected the face of the closest pair
C21_Witness ==
  /\ last.op = "pick"
  /\ ~ExactHit(last.q, last.dir)
  /\ Len(last.trav) = 2
  /\ last.ret.index >= 0
  /\ last.ret.val = 0
  /\ valid_pick
  /\ picked_sample.face_index = last.ret.index

\* the transform an index holds is the Model's: none when the Model has none
HoldsModelTransform(tree) ==
  /\ tree.has_trans = has_transform
  /\ has_transform => tree.trans = trans

\* C22: an index that a query has just walked holds the Model's current
\* transform, the identity when the Model has none, also when the transform was
\* changed while the index was invalid.
C22_IndexTransformCurrent ==
  (last.op \in QueryOps /\ status = "ok") =>
    /\ Used("kd") => HoldsModelTransform(kdtree)
    /\ Used("vkd") => HoldsModelTransform(vertex_kdtree)

\* C23: a load that returns false leaves the mesh group, the point cloud, the
\* samples, the segments, the path and both validity flags as they were, whatever
\* made it fail.
C23_FailedLoadKeeps ==
  [][\A path_ \in Paths \cup {""} : \A file \in FilesAt(path_) :
       (Load(path_, file) /\ last'.ret.val = 0) =>
         UNCHANGED <<mesh_group, point_cloud, samples, segments, path,
                     valid_kdtree, valid_vertex_kdtree>>
    ]_vars

\* C24: once a load of another model has succeeded no pick made before it is
\* valid: valid_pick is false until the next pick that selects a face.
C24_LoadInvalidatesPick ==
  [][\A path_ \in Paths : \A file \in FilesAt(path_) :
       (Load(path_, file) /\ last'.ret.val = 1) => ~valid_pick'
    ]_vars

\* ---- editing the samples of a loaded mesh
MaxSamples == 1
Labels == {"", "x"}

\* the samples handed to addSample: one on the first face of a.obj
SampleInputs ==
  {[mesh |-> "a.obj", face_index |-> 0, position |-> 2, type |-> "Manual", label |-> "m"]}

\* the samples files handed to loadSamples besides the one beside the model:
\* none, a negative count, a count of two with one line, a line on a face that no
\* mesh has
PickedFile(n, lines) == [kind |-> "picked", header |-> n, lines |-> lines]
GoodLine == <<"Picked", "0", "0", "x", "1">>
SampleFiles ==
  {NoFile, PickedFile(0 - 1, << >>), PickedFile(2, <<GoodLine>>),
   PickedFile(1, << <<"Picked", "5", "0", "x", "1">> >>)}

Indices == (0 - 1)..MaxSamples

AddSample(sample) ==
  /\ status = "ok"
  /\ Len(samples) < MaxSamples
  /\ \E m \in {AddSampleM(Self, sample)} :
       Commit(m, Call("addSample", [NoArgs EXCEPT !.q = sample.face_index], Self, m, NoneFound))

AddPickedSample(label, snap_to_vertex) ==
  /\ status = "ok"
  /\ Len(samples) < MaxSamples
  /\ \E r \in {AddPickedSampleM(Self, label, snap_to_vertex)} :
       Commit(r[1], Call("addPickedSample",
                         [NoArgs EXCEPT !.path_ = label, !.accel = snap_to_vertex],
                         Self, r[1], Flag(r[2])))

RemoveSample(index) ==
  /\ status = "ok"
  /\ \E m \in {RemoveSampleM(Self, index)} :
       Commit(m, Call("removeSample", [NoArgs EXCEPT !.q = index], Self, m, NoneFound))

SelectSample(index) ==
  /\ status = "ok"
  /\ \E m \in {SelectSampleM(Self, index)} :
       Commit(m, Call("selectSample", [NoArgs EXCEPT !.q = index], Self, m, NoneFound))

\* saveSamples(getSamplesPath())
SaveSamples ==
  /\ status = "ok"
  /\ \E r \in {SaveSamplesM(Self)} :
       LET m == [Self EXCEPT !.files[SamplesPath(Self)] = r[1]]
       IN Commit(m, Call("saveSamples", NoArgs, Self, m, Flag(r[2])))

LoadSamples(file) ==
  /\ status = "ok"
  /\ \E r \in {LoadSamplesM(Self, file)} :
       Commit(r[1], Call("loadSamples", [NoArgs EXCEPT !.file = file.kind, !.q = file.header],
                         Self, r[1], Flag(r[2])))

\* the segments files handed to loadSegments: none, the first face of the mesh,
\* a face that no mesh has
LabelsFile(lines) == [kind |-> "labels", header |-> 0, lines |-> lines]
SegmentFiles == {NoFile, LabelsFile(<< <<0>> >>), LabelsFile(<< <<5>> >>)}

LoadSegments(file) ==
  /\ status = "ok"
  /\ \E r \in {LoadSegmentsM(Self, file)} :
       Commit(r[1], Call("loadSegments", [NoArgs EXCEPT !.file = file.kind, !.q = Len(file.lines)],
                         Self, r[1], Flag(r[2])))

InitDisk ==
  /\ Construct("a.obj", MeshFile(DiskMesh("a.obj")))
  /\ Detached

NextSamples ==
  \/ \E path_ \in MeshPaths : Load(path_, MeshFile(DiskMesh(path_)))
  \/ Pick(0, 1)
  \/ \E sample \in SampleInputs : AddSample(sample)
  \/ \E label \in Labels, snap_to_vertex \in BOOLEAN : AddPickedSample(label, snap_to_vertex)
  \/ \E index \in Indices : RemoveSample(index)
  \/ \E index \in Indices : SelectSample(index)
  \/ SaveSamples
  \/ \E file \in SampleFiles : LoadSamples(file)
  \/ LoadSamples(files[SamplesPath(Self)])
  \/ \E file \in SegmentFiles : LoadSegments(file)

SpecSamples == InitDisk /\ [][NextSamples]_vars

\* the fields of a sample that a samples file is meant to keep
Kept(sample) ==
  [type |-> sample.type, face_index |-> sample.face_index,
   label |-> sample.label, position |-> sample.position]

\* C25: for a list of samples with a type on faces of the loaded mesh, labels
\* empty or not, writing it with saveSamples and reading the file with loadSamples
\* succeeds and gives a list of the same length with the same type, face index,
\* label and position in each place.
C25_SaveLoadRoundTrip ==
  (/\ status = "ok"
   /\ ~mesh_group.isnull
   /\ samples # << >>
   /\ \A i \in 1..Len(samples) : Writable(Self, samples[i]) /\ samples[i].type # "") =>
    LET saved == SaveSamplesM(Self)
        loaded == LoadSamplesM(Self, saved[1])
    IN /\ saved[2]
       /\ loaded[2]
       /\ Len(loaded[1].samples) = Len(samples)
       /\ \A i \in 1..Len(samples) : Kept(loaded[1].samples[i]) = Kept(samples[i])

\* C26: when loadSamples has returned false the samples are empty, and when
\* loadSegments has returned false the segments are empty: nothing half read and
\* nothing default-constructed stays behind.
C26_FailedReadLeavesEmpty ==
  /\ (last.op = "loadSamples" /\ last.ret.val = 0) => samples = << >>
  /\ (last.op = "loadSegments" /\ last.ret.val = 0) => segments = << >>

\* C28: selected_sample is -1 or an index into samples, and selected_segment is
\* -1 or an index into segments, whatever was selected, added, removed or loaded.
C28_SelectionInRange ==
  /\ selected_sample = 0 - 1 \/ (selected_sample >= 0 /\ selected_sample < Len(samples))
  /\ selected_segment = 0 - 1 \/ (selected_segment >= 0 /\ selected_segment < Len(segments))

\* ---- editing the segments of a loaded mesh
MaxSegments == 2
MaxPromotion == 1
SegmentInputs == {{"a.obj"}}
SegmentIndices == (0 - 1)..MaxSegments

PromotePickedSegment(offset) ==
  /\ status = "ok"
  /\ segment_depth_promotion + offset <= MaxPromotion
  /\ \E m \in {PromotePickedSegmentM(Self, offset)} :
       Commit(m, Call("promotePickedSegment", [NoArgs EXCEPT !.q = offset], Self, m, NoneFound))

AddSegment(segment) ==
  /\ status = "ok"
  /\ Len(segments) < MaxSegments
  /\ \E m \in {AddSegmentM(Self, segment)} :
       Commit(m, Call("addSegment", NoArgs, Self, m, NoneFound))

AddPickedSegment(label) ==
  /\ status = "ok"
  /\ Len(segments) < MaxSegments
  /\ \E r \in {AddPickedSegmentM(Self, label)} :
       Commit(r[1], Call("addPickedSegment", [NoArgs EXCEPT !.path_ = label],
                         Self, r[1], Flag(r[2])))

RemoveSegment(index) ==
  /\ status = "ok"
  /\ \E m \in {RemoveSegmentM(Self, index)} :
       Commit(m, Call("removeSegment", [NoArgs EXCEPT !.q = index], Self, m, NoneFound))

SelectSegment(index) ==
  /\ status = "ok"
  /\ \E m \in {SelectSegmentM(Self, index)} :
       Commit(m, Call("selectSegment", [NoArgs EXCEPT !.q = index], Self, m, NoneFound))

NextSegments ==
  \/ \E d \in Dirs, extend_to_similar \in BOOLEAN : TogglePickMesh(0, d, extend_to_similar)
  \/ \E offset \in {0 - 1, 1} : PromotePickedSegment(offset)
  \/ \E segment \in SegmentInputs : AddSegment(segment)
  \/ \E label \in Labels : AddPickedSegment(label)
  \/ \E index \in SegmentIndices : RemoveSegment(index)
  \/ \E index \in SegmentIndices : SelectSegment(index)

SpecSegments == InitDisk /\ [][NextSegments]_vars

\* C27: no mesh belongs to two committed segments, whatever was picked, promoted,
\* added or removed.
C27_SegmentsDisjoint ==
  \A i, j \in 1..Len(segments) : i # j => segments[i] \cap segments[j] = {}

====
